---------------------------- MODULE Spec2Model ----------------------------
(***************************************************************************)
(* Model of the deopenchat accountable-metering pipeline:                  *)
(*   - the metadata journal (deopenchat-gateway/src/metadata.rs): the two  *)
(*     on-disk tables `status` and `history`, the per-key lock registry    *)
(*     and the operations req / resp / confirm / load_round /              *)
(*     load_all_history / commit;                                          *)
(*   - the signed-message and claim codecs (common/src/lib.rs);            *)
(*   - the zk guest program (deopenchat-zkcircuit/guest/src/main.rs).      *)
(*                                                                         *)
(* Every journal call that mutates one key runs under that key's write     *)
(* lock, so it is one atomic step here.  A store operation (cacache read,  *)
(* write, remove) may fail with an I/O error: the `fault` input of a call  *)
(* is the index of the store operation that fails (0: none), and the       *)
(* writes made before it stay on disk.  These are also exactly the disk    *)
(* states an observer can see between two writes of one call.              *)
(* load_all_history and commit release the lock between two keys / two     *)
(* claims, so they advance one key / one claim per step.                   *)
(***************************************************************************)
EXTENDS Integers, Sequences, FiniteSets, Bags, TLC

(***************************************************************************)
(* Bounds of the model.                                                    *)
(***************************************************************************)
\* largest request sequence number the first client presents
MaxSeq == 2
\* largest request sequence number the second client presents
MaxSeqOther == 1
\* the longest slice of claims of one commit call that is followed claim by
\* claim
MaxClaims == 1
\* largest seq of the first round of a round list handed to the zk guest
MaxStart == 2
\* longest round list handed to the zk guest
MaxRounds == 2
\* most requests in flight when a completions_confirm request is taken up
MaxInFlight == 1
\* the same where confirm requests are handled concurrently
MaxConcurrent == 2
\* most claims the decode loop of the settlement loop is followed for
MaxDecoded == 3
\* the --commit-high-water-level the daemon is started with
commit_high_water_level == 3

(***************************************************************************)
(* Program constants (common/src/lib.rs).                                  *)
(***************************************************************************)
SIGNATURE_SIZE == 64
PUBLIC_KEY_SIZE == 32
CLAIM_SIZE == PUBLIC_KEY_SIZE + 4 + 4 + 8

\* The clients.  Client k holds the PublicKey = [u8; PUBLIC_KEY_SIZE] whose
\* bytes all equal k.
PublicKeys == {1, 2}
PkBytes(k) == [i \in 1..PUBLIC_KEY_SIZE |-> k]

(***************************************************************************)
(* Signed-message codec.                                                   *)
(***************************************************************************)
\* uN::to_be_bytes: the n big-endian bytes of v
RECURSIVE to_be_bytes(_, _)
to_be_bytes(v, n) ==
    IF n = 0 THEN <<>> ELSE Append(to_be_bytes(v \div 256, n - 1), v % 256)

\* uN::from_be_bytes
RECURSIVE from_be_bytes(_)
from_be_bytes(bs) ==
    IF bs = <<>> THEN 0
    ELSE from_be_bytes(SubSeq(bs, 1, Len(bs) - 1)) * 256 + bs[Len(bs)]

\* impl From<RequestMsg> for [u8; 4]
RequestMsgBytes(m) == to_be_bytes(m.seq, 4)

\* impl From<ConfirmMsg> for [u8; 12]
ConfirmMsgBytes(m) ==
    to_be_bytes(m.seq, 4) \o to_be_bytes(m.input_tokens, 4)
        \o to_be_bytes(m.resp_tokens, 4)

\* An Ed25519 signature, idealised: the signature made by the holder of pk
\* over the bytes msg is the pair of them; every other value fails to verify.
Sign(pk, msg) == [signer |-> pk, bytes |-> msg]

\* VerifyingKey::verify
Verify(pk, msg, signature) == signature = Sign(pk, msg)

(***************************************************************************)
(* Records of the journal.                                                 *)
(***************************************************************************)
Requested == "Requested"
WaitingConfirm == "WaitingConfirm"
Completed == "Completed"

\* struct PeerStatus
PeerStatus(seq, commit_seq, state) ==
    [seq |-> seq, commit_seq |-> commit_seq, state |-> state]

\* struct CompletionsReq (raw_req is passed through and not modelled)
CompletionsReq(pk, seq, signature) ==
    [pk |-> pk, request |-> [msg |-> [seq |-> seq], signature |-> signature]]

\* struct CompletionsResp: the backend's usage record of raw_response
CompletionsResp(prompt_tokens, completion_tokens) ==
    [usage |-> [prompt_tokens |-> prompt_tokens,
                completion_tokens |-> completion_tokens]]

\* struct ConfirmReq
ConfirmReq(pk, seq, input_tokens, resp_tokens, signature) ==
    [pk |-> pk,
     confirm |-> [msg |-> [seq |-> seq, input_tokens |-> input_tokens,
                           resp_tokens |-> resp_tokens],
                  signature |-> signature]]

\* struct RoundData; Option<ConfirmReq> is a sequence of length 0 or 1
RoundData(seq, req, resp, confirm_msg) ==
    [seq |-> seq, req |-> req, resp |-> resp, confirm_msg |-> confirm_msg]

\* struct Claim
Claim(pk, start_seq, rounds, tokens_consumed) ==
    [pk |-> pk, start_seq |-> start_seq, rounds |-> rounds,
     tokens_consumed |-> tokens_consumed]

\* struct Round
Round(request, confirm) == [request |-> request, confirm |-> confirm]

(***************************************************************************)
(* The zk guest (deopenchat-zkcircuit/guest/src/main.rs).                  *)
(***************************************************************************)
\* mutant of ClaimBytes: the rounds field is not written
ClaimBytesNoRounds(claim) ==
    PkBytes(claim.pk) \o to_be_bytes(claim.start_seq, 4)
        \o to_be_bytes(claim.tokens_consumed, 8)

\* impl From<Claim> for [u8; CLAIM_SIZE]
ClaimBytes(claim) ==
    PkBytes(claim.pk) \o to_be_bytes(claim.start_seq, 4)
        \o to_be_bytes(claim.rounds, 4) \o to_be_bytes(claim.tokens_consumed, 8)

\* mutant of RoundAsserts: the confirm signature is not verified
RoundAssertsNoConfirmVerify(vk, curr_seq, round) ==
    /\ curr_seq = round.request.msg.seq
    /\ curr_seq = round.confirm.msg.seq
    /\ Verify(vk, RequestMsgBytes(round.request.msg), round.request.signature)

\* the two assert_eq! and the two assert! of the body of for round in rounds
RoundAsserts(vk, curr_seq, round) ==
    /\ curr_seq = round.request.msg.seq
    /\ curr_seq = round.confirm.msg.seq
    /\ Verify(vk, RequestMsgBytes(round.request.msg), round.request.signature)
    /\ Verify(vk, ConfirmMsgBytes(round.confirm.msg), round.confirm.signature)

\* for round in rounds: a failed assertion panics, else tokens_consumed is
\* the sum over the rounds
RECURSIVE ForRounds(_, _, _, _)
ForRounds(vk, rounds, curr_seq, tokens_consumed) ==
    IF rounds = <<>>
    THEN [panicked |-> FALSE, tokens_consumed |-> tokens_consumed]
    ELSE IF ~RoundAsserts(vk, curr_seq, Head(rounds))
    THEN [panicked |-> TRUE, tokens_consumed |-> tokens_consumed]
    ELSE ForRounds(vk, Tail(rounds), curr_seq + 1,
                   tokens_consumed + Head(rounds).confirm.msg.input_tokens
                                   + Head(rounds).confirm.msg.resp_tokens)

\* One iteration of for (client_pk, rounds) in &input.rounds: the 48 bytes
\* of the claim in a sequence of length 1, or <<>> when the guest panics
\* (rounds[0] of an empty list, or a failed assertion).
ClaimBuf(client_pk, rounds) ==
    IF rounds = <<>> THEN <<>>
    ELSE LET r == ForRounds(client_pk, rounds, rounds[1].request.msg.seq, 0)
         IN  IF r.panicked THEN <<>>
             ELSE <<ClaimBytes(Claim(client_pk, rounds[1].request.msg.seq,
                                     Len(rounds), r.tokens_consumed))>>

(***************************************************************************)
(* The content-addressed store: a table is a function from the keys that   *)
(* have an entry to their values.                                          *)
(***************************************************************************)
\* cacache::write
Write(table, key, value) == (key :> value) @@ table

\* cacache::remove
Remove(table, key) == [k \in DOMAIN table \ {key} |-> table[k]]

\* the history key format!("{}-{}", key_str, seq)
HKey(pk, seq) == <<pk, seq>>


VARIABLES
    status,     \* the status table: hex(pk) -> PeerStatus
    history,    \* the history table: hex(pk)-seq -> RoundData
    locks,      \* the keys of the lock registry
    lah,        \* the load_all_history call in progress
    cmt,        \* the commit call in progress
    accepted,   \* per key, the req / resp / confirm calls that returned Ok
    applied,    \* the claims that the commit call in progress has applied
    input,      \* the Input the zk guest reads: pk -> Vec<Round>
    guest,      \* the run of the zk guest
    accumulated_tokens,     \* Context.accumulated_tokens
    handlers,   \* the HTTP handler tasks in flight, a bag
    chain,      \* the Deopenchat contract as the gateway sees it
    settle,     \* the commit_handler task
    codec,      \* a claim, its encoding and the decoding of that
    confirmed   \* the confirm requests answered Ok since the process
                \* started, a bag

\* the state of the daemon process around the journal
daemon_vars ==
    <<accumulated_tokens, handlers, chain, settle, codec, confirmed>>

vars ==
    <<status, history, locks, lah, cmt, accepted, applied, input, guest,
      accumulated_tokens, handlers, chain, settle, codec, confirmed>>

(***************************************************************************)
(* The journal calls on one key, each as the function its code computes    *)
(* from the two tables: the tables after the call and the value returned.  *)
(* `fault` numbers the store operations of the call in program order.      *)
(* The errors a call returns: EnsureFailed (an ensure! whose condition is  *)
(* false), StoreError (a cacache error, EntryNotFound included) and        *)
(* NoSuchLock.                                                             *)
(***************************************************************************)
Returned(st, hi, res) == [status |-> st, history |-> hi, res |-> res]

\* mutant of ReqGuard: the continuity check curr.seq + 1 == seq is missing
ReqGuardNoSeq(curr, seq) == curr.state = Completed

\* mutant of ReqGuard: the state check is missing
ReqGuardNoState(curr, seq) == curr.seq + 1 = seq

\* ensure!(curr.state == RoundState::Completed); ensure!(curr.seq + 1 == seq)
ReqGuard(curr, seq) == curr.state = Completed /\ curr.seq + 1 = seq

\* MetadataCache::req.  Store operations: 1 read status, 2 write status.
ReqCall(st, hi, req, fault) ==
    LET key == req.pk
        seq == req.request.msg.seq
    IN  IF fault = 1 THEN Returned(st, hi, "StoreError")
        ELSE IF key \notin DOMAIN st
        THEN IF seq # 1 THEN Returned(st, hi, "EnsureFailed")
             ELSE IF fault = 2 THEN Returned(st, hi, "StoreError")
             ELSE Returned(Write(st, key, PeerStatus(1, 0, Requested)), hi, "Ok")
        ELSE IF ~ReqGuard(st[key], seq) THEN Returned(st, hi, "EnsureFailed")
        ELSE IF fault = 2 THEN Returned(st, hi, "StoreError")
        ELSE Returned(Write(st, key,
                            PeerStatus(seq, st[key].commit_seq, Requested)),
                      hi, "Ok")

\* mutant of RespGuard: the state check is missing
RespGuardNoState(curr, seq) == curr.seq = seq

\* ensure!(curr_round.state == RoundState::Requested);
\* ensure!(curr_round.seq == req.request.msg.seq)
RespGuard(curr, seq) == curr.state = Requested /\ curr.seq = seq

\* MetadataCache::resp.  Store operations: 1 read status, 2 write history,
\* 3 write status.
RespCall(st, hi, req, resp, fault) ==
    LET key == req.pk
        seq == req.request.msg.seq
    IN  IF fault = 1 \/ key \notin DOMAIN st
        THEN Returned(st, hi, "StoreError")
        ELSE IF ~RespGuard(st[key], seq) THEN Returned(st, hi, "EnsureFailed")
        ELSE IF fault = 2 THEN Returned(st, hi, "StoreError")
        ELSE LET rd == RoundData(seq, req, resp, <<>>)
                 hi2 == Write(hi, HKey(key, st[key].seq), rd)
             IN  IF fault = 3 THEN Returned(st, hi2, "StoreError")
                 ELSE Returned(Write(st, key, [st[key] EXCEPT
                                                 !.state = WaitingConfirm]),
                               hi2, "Ok")

\* mutant of ConfirmGuard: the seq check is missing
ConfirmGuardNoSeq(curr, seq) == curr.state = WaitingConfirm

\* the second ensure! alone
ConfirmGuardNoState(curr, seq) == curr.seq = seq

\* ensure!(curr_round.state == RoundState::WaitingConfirm);
\* ensure!(curr_round.seq == confirm.confirm.msg.seq)
ConfirmGuard(curr, seq) == curr.state = WaitingConfirm /\ curr.seq = seq

\* MetadataCache::confirm.  Store operations: 1 read status, 2 read history,
\* 3 write history, 4 write status.
ConfirmCall(st, hi, confirm, fault) ==
    LET key == confirm.pk
        seq == confirm.confirm.msg.seq
    IN  IF fault = 1 \/ key \notin DOMAIN st
        THEN Returned(st, hi, "StoreError")
        ELSE IF ~ConfirmGuard(st[key], seq)
        THEN Returned(st, hi, "EnsureFailed")
        ELSE IF fault \in {2, 3} \/ HKey(key, seq) \notin DOMAIN hi
        THEN Returned(st, hi, "StoreError")
        ELSE LET rd == [hi[HKey(key, seq)] EXCEPT !.confirm_msg = <<confirm>>]
                 hi2 == Write(hi, HKey(key, st[key].seq), rd)
             IN  IF fault = 4 THEN Returned(st, hi2, "StoreError")
                 ELSE Returned(Write(st, key, [st[key] EXCEPT
                                                 !.state = Completed]),
                               hi2, "Ok")

\* MetadataCache::load_round.  Store operation: 1 read history.
LoadRoundCall(hi, key, seq, fault) ==
    IF fault = 1 \/ HKey(key, seq) \notin DOMAIN hi THEN "StoreError" ELSE "Ok"

\* mutant of RemoveRange: the record after the range is removed too
RemoveRangeInclusive(hi, key, lo, n) ==
    [k \in DOMAIN hi \ {HKey(key, seq) : seq \in lo..(lo + n)} |-> hi[k]]

\* for seq in lo..: cacache::remove(history, key-seq), the first n of them
RECURSIVE RemoveRange(_, _, _, _)
RemoveRange(hi, key, lo, n) ==
    IF n = 0 THEN hi
    ELSE RemoveRange(Remove(hi, HKey(key, lo)), key, lo + 1, n - 1)

\* mutant of CommitGuard: the check against s.seq is missing
CommitGuardNoUpper(s, claim) == s.commit_seq + 1 = claim.start_seq

\* mutant of CommitGuard: the check against claim.start_seq is missing
CommitGuardNoStart(s, claim) == s.seq >= s.commit_seq + claim.rounds

\* ensure!(s.commit_seq + 1 == claim.start_seq);
\* ensure!(s.seq >= s.commit_seq + claim.rounds)
CommitGuard(s, claim) ==
    s.commit_seq + 1 = claim.start_seq /\ s.seq >= s.commit_seq + claim.rounds

\* mutant of AdvanceCommitSeq: the watermark is set one past the range
AdvanceCommitSeqPastEnd(s, claim) ==
    [s EXCEPT !.commit_seq = claim.start_seq + claim.rounds]

\* s.commit_seq += claim.rounds
AdvanceCommitSeq(s, claim) == [s EXCEPT !.commit_seq = @ + claim.rounds]

\* mutant of CommitClaim: the records are removed before the status is
\* written
CommitClaimRemoveFirst(st, hi, keys, claim, fault) ==
    LET key == claim.pk IN
    IF key \notin keys THEN Returned(st, hi, "NoSuchLock")
    ELSE IF fault = 1 \/ key \notin DOMAIN st
    THEN Returned(st, hi, "StoreError")
    ELSE IF ~CommitGuard(st[key], claim) THEN Returned(st, hi, "EnsureFailed")
    ELSE LET hi2 == RemoveRange(hi, key, claim.start_seq, claim.rounds)
         IN  IF fault >= 2 /\ fault <= 2 + claim.rounds
             THEN Returned(st, hi2, "StoreError")
             ELSE Returned(Write(st, key, AdvanceCommitSeq(st[key], claim)),
                           hi2, "Ok")

\* One iteration of the loop of MetadataCache::commit, for one claim, with
\* keys the registry cloned at the start of the call.  Store operations:
\* 1 read status, 2 write status, 2 + j the j-th remove.
CommitClaim(st, hi, keys, claim, fault) ==
    LET key == claim.pk IN
    IF key \notin keys THEN Returned(st, hi, "NoSuchLock")
    ELSE IF fault = 1 \/ key \notin DOMAIN st
    THEN Returned(st, hi, "StoreError")
    ELSE IF ~CommitGuard(st[key], claim) THEN Returned(st, hi, "EnsureFailed")
    ELSE IF fault = 2 THEN Returned(st, hi, "StoreError")
    ELSE LET st2 == Write(st, key, AdvanceCommitSeq(st[key], claim))
         IN  IF fault > 2 /\ fault <= 2 + claim.rounds
             THEN Returned(st2,
                           RemoveRange(hi, key, claim.start_seq, fault - 3),
                           "StoreError")
             ELSE Returned(st2,
                           RemoveRange(hi, key, claim.start_seq, claim.rounds),
                           "Ok")

\* MetadataCache::commit on the whole slice claims, faults[i] being the
\* fault of the i-th iteration: the first error ends the call
RECURSIVE Commit(_, _, _, _, _)
Commit(st, hi, keys, claims, faults) ==
    IF claims = <<>> THEN Returned(st, hi, "Ok")
    ELSE LET r == CommitClaim(st, hi, keys, Head(claims), Head(faults))
         IN  IF r.res # "Ok" THEN r
             ELSE Commit(r.status, r.history, keys, Tail(claims), Tail(faults))

\* for seq in lo..up (up excluded): the records read, in order
RECURSIVE ReadRange(_, _, _, _)
ReadRange(hi, key, lo, up) ==
    IF lo >= up THEN <<>>
    ELSE <<hi[HKey(key, lo)]>> \o ReadRange(hi, key, lo + 1, up)

\* mutant of LoadKeyHistory: the range is s.commit_seq + 1..=s.seq
LoadKeyHistoryInclusive(st, hi, out, key, fault) ==
    IF fault = 1 \/ key \notin DOMAIN st
    THEN [res |-> "StoreError", out |-> out]
    ELSE LET s == st[key] IN
         IF \E seq \in (s.commit_seq + 1)..s.seq :
                fault = 2 \/ HKey(key, seq) \notin DOMAIN hi
         THEN [res |-> "StoreError", out |-> out]
         ELSE LET rounds == ReadRange(hi, key, s.commit_seq + 1, s.seq + 1)
              IN  [res |-> "Ok",
                   out |-> IF rounds # <<>> THEN Write(out, key, rounds)
                           ELSE out]

\* mutant of LoadKeyHistory: the range starts at s.commit_seq + 2
LoadKeyHistoryFromNext(st, hi, out, key, fault) ==
    IF fault = 1 \/ key \notin DOMAIN st
    THEN [res |-> "StoreError", out |-> out]
    ELSE LET s == st[key] IN
         IF \E seq \in (s.commit_seq + 1)..(s.seq - 1) :
                fault = 2 \/ HKey(key, seq) \notin DOMAIN hi
         THEN [res |-> "StoreError", out |-> out]
         ELSE LET rounds == ReadRange(hi, key, s.commit_seq + 2, s.seq)
              IN  [res |-> "Ok",
                   out |-> IF rounds # <<>> THEN Write(out, key, rounds)
                           ELSE out]

\* mutant of LoadKeyHistory: the list is inserted even when it is empty
LoadKeyHistoryKeepEmpty(st, hi, out, key, fault) ==
    IF fault = 1 \/ key \notin DOMAIN st
    THEN [res |-> "StoreError", out |-> out]
    ELSE LET s == st[key] IN
         IF \E seq \in (s.commit_seq + 1)..(s.seq - 1) :
                fault = 2 \/ HKey(key, seq) \notin DOMAIN hi
         THEN [res |-> "StoreError", out |-> out]
         ELSE [res |-> "Ok",
               out |-> Write(out, key,
                             ReadRange(hi, key, s.commit_seq + 1, s.seq))]

\* One iteration of the loop of MetadataCache::load_all_history, for one
\* key: an error when a read fails, else the map `out` after the iteration.
\* Store operations: 1 read status, 2 a read of history.
LoadKeyHistory(st, hi, out, key, fault) ==
    IF fault = 1 \/ key \notin DOMAIN st
    THEN [res |-> "StoreError", out |-> out]
    ELSE LET s == st[key] IN
         IF \E seq \in (s.commit_seq + 1)..(s.seq - 1) :
                fault = 2 \/ HKey(key, seq) \notin DOMAIN hi
         THEN [res |-> "StoreError", out |-> out]
         ELSE LET rounds == ReadRange(hi, key, s.commit_seq + 1, s.seq)
              IN  [res |-> "Ok",
                   out |-> IF rounds # <<>> THEN Write(out, key, rounds)
                           ELSE out]

(***************************************************************************)
(* What the callers present to the journal.                                *)
(***************************************************************************)
\* the sequence numbers client pk presents
Seqs(pk) == IF pk = 1 THEN 1..MaxSeq ELSE 1..MaxSeqOther

\* the signed request of key pk for seq
SignedReq(pk, seq) ==
    CompletionsReq(pk, seq, Sign(pk, RequestMsgBytes([seq |-> seq])))

\* the signed confirm of key pk for seq
SignedConfirm(pk, seq, input_tokens, resp_tokens) ==
    ConfirmReq(pk, seq, input_tokens, resp_tokens,
               Sign(pk, ConfirmMsgBytes([seq |-> seq,
                                         input_tokens |-> input_tokens,
                                         resp_tokens |-> resp_tokens])))

JournalReqs ==
    UNION {{SignedReq(pk, seq) : seq \in Seqs(pk)} : pk \in PublicKeys}
JournalResps == {CompletionsResp(1, 2)}
JournalConfirms ==
    {SignedConfirm(req.pk, req.request.msg.seq, 1, 2) : req \in JournalReqs}

\* the claims a caller of commit presents (commit does not read
\* tokens_consumed)
ClaimArgs ==
    {Claim(req.pk, req.request.msg.seq, rounds, 0) :
        req \in JournalReqs, rounds \in 0..MaxSeq}

(***************************************************************************)
(* The state machine of the journal.                                       *)
(***************************************************************************)
NoMap == <<>>

\* the guest at let mut claims = Vec::with_capacity(..): todo is the keys
\* the loop has still to visit, journal the committed bytes in a sequence
\* of length 1
GuestStart(inp) ==
    [pc |-> "loop", todo |-> DOMAIN inp, claims |-> <<>>, journal |-> <<>>]

\* no call in progress; of a call in progress: the registry it cloned (all),
\* the keys it has still to visit (keys), the map it has built (out)
Idle == [active |-> FALSE, all |-> {}, keys |-> {}, out |-> NoMap]

\* the contract before any claim transaction: viewStatus(..).seq of every
\* client is 0, and no claim has been accepted
ChainStart == [seq |-> [pk \in PublicKeys |-> 0], claimed |-> <<>>]

\* commit_handler at its loop, the image id of the contract being the
\* prover's: crossed is whether a tick has found the counter at the
\* watermark, journal, buff and claims are the variables of the decode loop,
\* error is the `?` that ended the loop
SettleStart ==
    [pc |-> "sleep", crossed |-> FALSE, journal |-> <<>>, buff |-> <<>>,
     claims |-> <<>>, error |-> "none"]

\* no claim under conversion
NoClaim == [claim |-> <<>>, bytes |-> <<>>, decoded |-> <<>>]

\* daemon: Context { .., accumulated_tokens: AtomicU64::new(0) }, no request
\* being handled
DaemonStart ==
    /\ accumulated_tokens = 0
    /\ handlers = EmptyBag
    /\ chain = ChainStart
    /\ settle = SettleStart
    /\ confirmed = EmptyBag

\* MetadataCache::new over an empty cache directory
Init ==
    /\ status = <<>>
    /\ history = <<>>
    /\ locks = {}
    /\ lah = Idle
    /\ cmt = Idle
    /\ accepted = [pk \in PublicKeys |-> <<>>]
    /\ applied = <<>>
    /\ input = NoMap
    /\ guest = GuestStart(NoMap)
    /\ DaemonStart
    /\ codec = NoClaim

\* self.locks.lock().unwrap().entry(key).or_insert_with(..)
Register(key) == locks' = locks \cup {key}

\* the call op of key pk for seq returned res
Accept(op, pk, seq, res) ==
    accepted' = IF res = "Ok"
                THEN [accepted EXCEPT ![pk] = Append(@, <<op, seq>>)]
                ELSE accepted

Req(req, fault) ==
    LET r == ReqCall(status, history, req, fault) IN
    /\ Register(req.pk)
    /\ status' = r.status
    /\ history' = r.history
    /\ Accept("req", req.pk, req.request.msg.seq, r.res)
    /\ UNCHANGED <<lah, cmt, applied, input, guest, daemon_vars>>

Resp(req, resp, fault) ==
    LET r == RespCall(status, history, req, resp, fault) IN
    /\ Register(req.pk)
    /\ status' = r.status
    /\ history' = r.history
    /\ Accept("resp", req.pk, req.request.msg.seq, r.res)
    /\ UNCHANGED <<lah, cmt, applied, input, guest, daemon_vars>>

Confirm(confirm, fault) ==
    LET r == ConfirmCall(status, history, confirm, fault) IN
    /\ Register(confirm.pk)
    /\ status' = r.status
    /\ history' = r.history
    /\ Accept("confirm", confirm.pk, confirm.confirm.msg.seq, r.res)
    /\ UNCHANGED <<lah, cmt, applied, input, guest, daemon_vars>>

\* the value returned is LoadRoundCall(history, key, seq, fault)
LoadRound(key, seq, fault) ==
    /\ Register(key)
    /\ UNCHANGED <<status, history, lah, cmt, accepted, applied, input, guest, daemon_vars>>

\* load_all_history: let keys = self.locks.lock().unwrap().clone().
\* Its only caller, the settlement loop, runs it and commit one after the
\* other, never both at once.
LoadAllHistoryCall ==
    /\ ~lah.active /\ ~cmt.active
    /\ lah' = [active |-> TRUE, all |-> locks, keys |-> locks, out |-> NoMap]
    /\ UNCHANGED <<status, history, locks, cmt, accepted, applied, input, guest, daemon_vars>>

\* load_all_history: one iteration of for (key, lock) in keys, in the
\* HashMap's order
LoadAllHistoryStep(key, fault) ==
    LET r == LoadKeyHistory(status, history, lah.out, key, fault) IN
    /\ lah.active
    /\ key \in lah.keys
    /\ lah' = IF r.res = "Ok"
              THEN [lah EXCEPT !.keys = @ \ {key}, !.out = r.out]
              ELSE Idle
    /\ UNCHANGED <<status, history, locks, cmt, accepted, applied, input, guest, daemon_vars>>

\* load_all_history: Ok(out)
LoadAllHistoryReturn ==
    /\ lah.active
    /\ lah.keys = {}
    /\ lah' = Idle
    /\ UNCHANGED <<status, history, locks, cmt, accepted, applied, input, guest, daemon_vars>>

\* commit: let keys = self.locks.lock().unwrap().clone()
CommitCall ==
    /\ ~cmt.active /\ ~lah.active
    /\ cmt' = [active |-> TRUE, all |-> locks, keys |-> locks, out |-> NoMap]
    /\ UNCHANGED <<status, history, locks, lah, accepted, applied, input, guest, daemon_vars>>

\* commit: one iteration of for claim in claims; the claims of the slice
\* are drawn one at a time as the loop reaches them.  An error ends the
\* call, else the loop goes on.
CommitIteration(claim, fault) ==
    LET r == CommitClaim(status, history, cmt.keys, claim, fault) IN
    /\ cmt.active
    /\ status' = r.status
    /\ history' = r.history
    /\ cmt' = IF r.res = "Ok" THEN cmt ELSE Idle
    /\ UNCHANGED <<locks, lah, accepted, input, guest, daemon_vars>>

CommitStep(claim, fault) ==
    /\ CommitIteration(claim, fault)
    /\ UNCHANGED applied

\* CommitStep for a slice of MaxClaims claims at most, the claim being
\* appended to `applied` when the iteration returned Ok
TrackedCommitStep(claim, fault) ==
    /\ Len(applied) < MaxClaims
    /\ CommitIteration(claim, fault)
    /\ applied' = IF cmt'.active THEN Append(applied, claim) ELSE <<>>

\* commit: the slice is exhausted, Ok(())
CommitReturn ==
    /\ cmt.active
    /\ cmt' = Idle
    /\ applied' = <<>>
    /\ UNCHANGED <<status, history, locks, lah, accepted, input, guest, daemon_vars>>

Next ==
    \/ \E req \in JournalReqs, fault \in 0..2 : Req(req, fault)
    \/ \E req \in JournalReqs, resp \in JournalResps, fault \in 0..3 :
          Resp(req, resp, fault)
    \/ \E confirm \in JournalConfirms, fault \in 0..4 : Confirm(confirm, fault)
    \/ \E req \in JournalReqs, fault \in 0..1 :
          LoadRound(req.pk, req.request.msg.seq, fault)
    \/ LoadAllHistoryCall
    \/ \E key \in PublicKeys, fault \in 0..2 : LoadAllHistoryStep(key, fault)
    \/ LoadAllHistoryReturn
    \/ CommitCall
    \/ \E claim \in ClaimArgs : \E fault \in 0..(2 + claim.rounds) :
          CommitStep(claim, fault)
    \/ CommitReturn

Spec == Init /\ [][Next]_vars

(***************************************************************************)
(* The journal with commit calls only (no load_all_history), every claim   *)
(* that commit applies being recorded.                                     *)
(***************************************************************************)
NextCommit ==
    \/ \E req \in JournalReqs, fault \in 0..2 : Req(req, fault)
    \/ \E req \in JournalReqs, resp \in JournalResps, fault \in 0..3 :
          Resp(req, resp, fault)
    \/ \E confirm \in JournalConfirms, fault \in 0..4 : Confirm(confirm, fault)
    \/ \E req \in JournalReqs, fault \in 0..1 :
          LoadRound(req.pk, req.request.msg.seq, fault)
    \/ CommitCall
    \/ \E claim \in ClaimArgs : \E fault \in 0..(2 + claim.rounds) :
          TrackedCommitStep(claim, fault)
    \/ CommitReturn

SpecCommit == Init /\ [][NextCommit]_vars

(***************************************************************************)
(* The zk guest run on one Input.  The inputs are the mappings from some   *)
(* of the clients to a round list that is empty, or well formed, or well   *)
(* formed but for one defect in one round.                                 *)
(***************************************************************************)
Defects ==
    {"seq_gap", "confirm_seq", "request_signer", "confirm_signer",
     "confirm_tokens"}

\* the k-th round of the list of pk that starts at seq start
InputRound(pk, start, k, defect) ==
    LET seq == start + k - 1
        other == CHOOSE p \in PublicKeys : p # pk
        request_msg == [seq |-> IF defect = "seq_gap" THEN seq + 1 ELSE seq]
        confirm_msg ==
            [seq |-> IF defect \in {"seq_gap", "confirm_seq"}
                     THEN seq + 1 ELSE seq,
             input_tokens |-> k, resp_tokens |-> 2]
        signed_msg == IF defect = "confirm_tokens"
                      THEN [confirm_msg EXCEPT !.resp_tokens = 0]
                      ELSE confirm_msg
    IN  Round([msg |-> request_msg,
               signature |-> Sign(IF defect = "request_signer" THEN other
                                  ELSE pk, RequestMsgBytes(request_msg))],
              [msg |-> confirm_msg,
               signature |-> Sign(IF defect = "confirm_signer" THEN other
                                  ELSE pk, ConfirmMsgBytes(signed_msg))])

\* The shapes of a round list: no entry for the key, the empty list, or
\* <<start, n, at, defect>> for n rounds from seq start with the defect in
\* round at (at = 0: no defect).
ListShapes ==
    {<<"absent">>, <<"empty">>} \cup
    UNION {{<<start, n, 0, "none">>} \cup
           {<<start, n, at, defect>> : at \in 1..n, defect \in Defects} :
           start \in 1..MaxStart, n \in 1..MaxRounds}

RoundList(pk, shape) ==
    IF Len(shape) = 1 THEN <<>>
    ELSE [k \in 1..shape[2] |->
            InputRound(pk, shape[1], k,
                       IF k = shape[3] THEN shape[4] ELSE "none")]

\* struct Input
Inputs ==
    {[pk \in {q \in PublicKeys : shapes[q] # <<"absent">>} |->
         RoundList(pk, shapes[pk])] : shapes \in [PublicKeys -> ListShapes]}

\* let input: Input = env::read(), the journal being left as constructed
InitCircuit ==
    /\ status = <<>>
    /\ history = <<>>
    /\ locks = {}
    /\ lah = Idle
    /\ cmt = Idle
    /\ accepted = [pk \in PublicKeys |-> <<>>]
    /\ applied = <<>>
    /\ input \in Inputs
    /\ guest = GuestStart(input)
    /\ DaemonStart
    /\ codec = NoClaim

\* one iteration of for (client_pk, rounds) in &input.rounds, the HashMap
\* yielding its keys in any order
GuestIteration(client_pk) ==
    LET claim_buf == ClaimBuf(client_pk, input[client_pk]) IN
    /\ guest.pc = "loop"
    /\ client_pk \in guest.todo
    /\ guest' = IF claim_buf = <<>>
                THEN [guest EXCEPT !.pc = "panicked"]
                ELSE [guest EXCEPT !.todo = @ \ {client_pk},
                                   !.claims = @ \o claim_buf[1]]
    /\ UNCHANGED <<status, history, locks, lah, cmt, accepted, applied, input, daemon_vars>>

\* env::commit_slice(&claims)
GuestCommit ==
    /\ guest.pc = "loop"
    /\ guest.todo = {}
    /\ guest' = [guest EXCEPT !.pc = "halted", !.journal = <<guest.claims>>]
    /\ UNCHANGED <<status, history, locks, lah, cmt, accepted, applied, input, daemon_vars>>

NextCircuit ==
    \/ \E client_pk \in PublicKeys : GuestIteration(client_pk)
    \/ GuestCommit

SpecCircuit == InitCircuit /\ [][NextCircuit]_vars


(***************************************************************************)
(* The settlement loop (commit_handler of deopenchat-gateway/src/main.rs). *)
(***************************************************************************)
\* rounds.into_iter().filter(|r| r.confirm_msg.is_some()).map(|round| Round
\* { request: round.req.request, confirm: round.confirm_msg.unwrap().confirm })
RECURSIVE ProverRounds(_)
ProverRounds(rounds) ==
    IF rounds = <<>> THEN <<>>
    ELSE IF Head(rounds).confirm_msg = <<>> THEN ProverRounds(Tail(rounds))
    ELSE <<Round(Head(rounds).req.request,
                 Head(rounds).confirm_msg[1].confirm)>>
            \o ProverRounds(Tail(rounds))

\* Input { rounds }: the map load_all_history returned, every list filtered
\* and converted
ProverInput(mapping) == [k \in DOMAIN mapping |-> ProverRounds(mapping[k])]


(***************************************************************************)
(* The HTTP front end of the gateway (deopenchat-gateway/src/main.rs).     *)
(* A handler is a task: each step below runs from one await on the journal *)
(* to the next, the handlers in flight being kept in the bag `handlers`.   *)
(***************************************************************************)
\* What clients send to /v1/completions: a request of pk for seq signed by
\* pk over seq, and the forgeries of a first request: signed by another key
\* holder, or signed by pk over another seq.
CompletionsRequests ==
    UNION {{CompletionsReq(pk, seq,
                           Sign(pk, RequestMsgBytes([seq |-> seq]))) :
                seq \in Seqs(pk)}
           \cup {CompletionsReq(pk, 1,
                                Sign(signer, RequestMsgBytes([seq |-> 1]))) :
                    signer \in PublicKeys \ {pk}}
           \cup {CompletionsReq(pk, 1,
                                Sign(pk, RequestMsgBytes([seq |-> 2])))} :
           pk \in PublicKeys}

\* the <<input_tokens, resp_tokens>> a client reports, the backend's usage
\* being that of JournalResps: exact, over-reported, under-reported
TokenReports == {<<1, 2>>, <<2, 3>>, <<0, 2>>, <<1, 1>>}

\* the reports made of round seq: any of the above of a first round, the
\* exact one of a later round
ReportsOf(seq) == IF seq = 1 THEN TokenReports ELSE {<<1, 2>>}

\* What clients send to /v1/completions/confirm: a report signed by pk, and
\* the forgery, the exact report signed by another key holder.
ConfirmRequests ==
    UNION {UNION {{ConfirmReq(pk, seq, t[1], t[2],
                              Sign(pk, ConfirmMsgBytes(
                                  [seq |-> seq, input_tokens |-> t[1],
                                   resp_tokens |-> t[2]]))) :
                       t \in ReportsOf(seq)}
                  \cup {ConfirmReq(pk, seq, 1, 2,
                                   Sign(signer, ConfirmMsgBytes(
                                       [seq |-> seq, input_tokens |-> 1,
                                        resp_tokens |-> 2]))) :
                           signer \in PublicKeys \ {pk}} :
                  seq \in Seqs(pk)} :
           pk \in PublicKeys}

\* deopenchat.viewStatus(..).call(): an RPC error, or a record whose
\* remainingTokens is 0 or more than 0
ViewOutcomes == {"rpc_error", "exhausted", "funded"}

\* The completions calls: <<req, view, fault>>.  Every request with a funded
\* record and the store answering; the correctly signed ones also with the
\* store failing in md_cache.req; a first request with each of the other
\* outcomes of viewStatus.
CompletionsCalls ==
    {<<req, "funded", 0>> : req \in CompletionsRequests}
       \cup {<<req, "funded", fault>> : req \in JournalReqs, fault \in 1..2}
       \cup {<<SignedReq(pk, 1), view, 0>> :
                pk \in PublicKeys, view \in ViewOutcomes \ {"funded"}}

\* The completions_confirm calls: <<req, fault>>.  Every request with the
\* store answering, the exact reports also with load_round failing.
ConfirmCalls ==
    {<<req, 0>> : req \in ConfirmRequests}
       \cup {<<req, 1>> : req \in JournalConfirms}

\* a handler task between two awaits; of a completions task, before is the
\* status record of the client when the request arrived, in a sequence of
\* length 0 or 1
Handler(op, pc, req, before) ==
    [op |-> op, pc |-> pc, req |-> req, before |-> before]

StatusOf(st, pk) == IF pk \in DOMAIN st THEN <<st[pk]>> ELSE <<>>

\* mutant of CompletionsChecks: the signature is not verified
CompletionsChecksNoVerify(req, view) == view = "funded"

\* completions, up to the backend call: vk.verify, viewStatus,
\* ensure!(record.remainingTokens > 0), md_cache.req
CompletionsChecks(req, view) ==
    /\ Verify(req.pk, RequestMsgBytes(req.request.msg), req.request.signature)
    /\ view = "funded"

CompletionsBegin(req, view, fault) ==
    LET checked == CompletionsChecks(req, view)
        r == IF checked THEN ReqCall(status, history, req, fault)
             ELSE Returned(status, history, "Rejected")
    IN  /\ locks' = IF checked THEN locks \cup {req.pk} ELSE locks
        /\ status' = r.status
        /\ history' = r.history
        /\ Accept("req", req.pk, req.request.msg.seq, r.res)
        /\ handlers' = IF r.res = "Ok"
                       THEN handlers (+) SetToBag({Handler("completions",
                                "backend", req, StatusOf(status, req.pk))})
                       ELSE handlers
        /\ UNCHANGED <<lah, cmt, applied, input, guest, accumulated_tokens,
                       chain, settle, codec, confirmed>>

\* the handlers in flight at pc for the request req
InFlight(op, pc, req) ==
    {h \in BagToSet(handlers) : h.op = op /\ h.pc = pc /\ h.req = req}

\* completions, the backend call failed: the handler answers 500
CompletionsBackendError(req) ==
    /\ \E h \in InFlight("completions", "backend", req) :
          handlers' = handlers (-) SetToBag({h})
    /\ UNCHANGED <<status, history, locks, lah, cmt, accepted, applied, input,
                   guest, accumulated_tokens, chain, settle, codec, confirmed>>

\* completions, the backend answered resp: md_cache.resp, and the answer
CompletionsEnd(req, resp, fault) ==
    LET r == RespCall(status, history, req, resp, fault) IN
    /\ \E h \in InFlight("completions", "backend", req) :
          handlers' = handlers (-) SetToBag({h})
    /\ Register(req.pk)
    /\ status' = r.status
    /\ history' = r.history
    /\ Accept("resp", req.pk, req.request.msg.seq, r.res)
    /\ UNCHANGED <<lah, cmt, applied, input, guest, accumulated_tokens,
                   chain, settle, codec, confirmed>>

\* the first ensure! alone
UsageChecksInputOnly(msg, usage) == msg.input_tokens >= usage.prompt_tokens

\* ensure!(req.confirm.msg.input_tokens >= usage.prompt_tokens);
\* ensure!(req.confirm.msg.resp_tokens >= usage.completion_tokens)
UsageChecks(msg, usage) ==
    /\ msg.input_tokens >= usage.prompt_tokens
    /\ msg.resp_tokens >= usage.completion_tokens

\* completions_confirm, up to md_cache.confirm: vk.verify, md_cache.load_round
\* and the two ensure! on the usage of the round loaded
ConfirmChecks(hi, req, fault) ==
    /\ Verify(req.pk, ConfirmMsgBytes(req.confirm.msg), req.confirm.signature)
    /\ LoadRoundCall(hi, req.pk, req.confirm.msg.seq, fault) = "Ok"
    /\ UsageChecks(req.confirm.msg,
                   hi[HKey(req.pk, req.confirm.msg.seq)].resp.usage)

ConfirmBegin(req, fault) ==
    /\ locks' = IF Verify(req.pk, ConfirmMsgBytes(req.confirm.msg),
                          req.confirm.signature)
                THEN locks \cup {req.pk} ELSE locks
    /\ handlers' = IF ConfirmChecks(history, req, fault)
                   THEN handlers (+) SetToBag({Handler("completions_confirm",
                                                       "confirm", req, <<>>)})
                   ELSE handlers
    /\ UNCHANGED <<status, history, lah, cmt, accepted, applied, input, guest,
                   accumulated_tokens, chain, settle, codec, confirmed>>

\* completions_confirm: md_cache.confirm
ConfirmJournal(req, fault) ==
    LET r == ConfirmCall(status, history, req, fault) IN
    /\ \E h \in InFlight("completions_confirm", "confirm", req) :
          handlers' = IF r.res = "Ok"
                      THEN (handlers (-) SetToBag({h}))
                               (+) SetToBag({[h EXCEPT !.pc = "fetch_add"]})
                      ELSE handlers (-) SetToBag({h})
    /\ Register(req.pk)
    /\ status' = r.status
    /\ history' = r.history
    /\ Accept("confirm", req.pk, req.confirm.msg.seq, r.res)
    /\ UNCHANGED <<lah, cmt, applied, input, guest, accumulated_tokens,
                   chain, settle, codec, confirmed>>

\* input_tokens as u64 + resp_tokens as u64
TokensAdded(msg) == msg.input_tokens + msg.resp_tokens

\* completions_confirm: ctx.accumulated_tokens.fetch_add(..), and Ok(())
ConfirmFetchAdd(req) ==
    /\ \E h \in InFlight("completions_confirm", "fetch_add", req) :
          handlers' = handlers (-) SetToBag({h})
    /\ accumulated_tokens' = accumulated_tokens + TokensAdded(req.confirm.msg)
    /\ confirmed' = confirmed (+) SetToBag({req})
    /\ UNCHANGED <<status, history, locks, lah, cmt, accepted, applied, input,
                   guest, chain, settle, codec>>

\* current_seq: the answer to GET /v1/completions/seq/<pk>, a seq in a
\* sequence of length 1, or <<>> for the answer 500.  load_status is None
\* for a key that is not in the registry, and then the seq is the chain's.
\* Calls: 1 the read of the status, 2 viewStatus.
CurrentSeq(lk, st, ch, pk, fault) ==
    IF pk \in lk
    THEN IF fault = 1 \/ pk \notin DOMAIN st THEN <<>> ELSE <<st[pk].seq>>
    ELSE IF fault = 2 THEN <<>> ELSE <<ch.seq[pk]>>

\* current_seq changes nothing: load_status looks the key up with get
CurrentSeqGet(pk, fault) ==
    /\ CurrentSeq(locks, status, chain, pk, fault) \in {<<>>} \cup
          {<<seq>> : seq \in 0..MaxSeq}
    /\ UNCHANGED vars

\* The daemon stops and is started again on the same cache directory: the
\* two tables stay, the registry, the counter and every task start afresh.
Restart ==
    /\ locks' = {}
    /\ accumulated_tokens' = 0
    /\ handlers' = EmptyBag
    /\ confirmed' = EmptyBag
    /\ settle' = SettleStart
    /\ lah' = Idle
    /\ cmt' = Idle
    /\ UNCHANGED <<status, history, accepted, applied, input, guest, chain,
                   codec>>

NextGateway ==
    \/ \E call \in CompletionsCalls :
          CompletionsBegin(call[1], call[2], call[3])
    \/ \E req \in CompletionsRequests : CompletionsBackendError(req)
    \/ \E req \in CompletionsRequests, resp \in JournalResps, fault \in 0..3 :
          CompletionsEnd(req, resp, fault)
    \/ \E call \in ConfirmCalls :
          /\ BagCardinality(handlers) < MaxInFlight
          /\ ConfirmBegin(call[1], call[2])
    \/ \E req \in ConfirmRequests, fault \in 0..4 : ConfirmJournal(req, fault)
    \/ \E req \in ConfirmRequests : ConfirmFetchAdd(req)
    \/ \E pk \in PublicKeys, fault \in 0..2 : CurrentSeqGet(pk, fault)

SpecGateway == Init /\ [][NextGateway]_vars

\* The daemon over its lifetimes: the handlers of correctly signed requests
\* with several confirm requests in flight at once, the seq endpoint, the
\* store answering every call, and the daemon stopped and started again.
NextConfirm ==
    \/ \E req \in JournalReqs : CompletionsBegin(req, "funded", 0)
    \/ \E req \in JournalReqs, resp \in JournalResps :
          CompletionsEnd(req, resp, 0)
    \/ \E req \in ConfirmRequests :
          BagCardinality(handlers) < MaxConcurrent /\ ConfirmBegin(req, 0)
    \/ \E req \in ConfirmRequests : ConfirmJournal(req, 0)
    \/ \E req \in ConfirmRequests : ConfirmFetchAdd(req)
    \/ \E pk \in PublicKeys : CurrentSeqGet(pk, 0)
    \/ Restart

SpecConfirm == Init /\ [][NextConfirm]_vars

(***************************************************************************)
(* The settlement loop, continued: commit_handler step by step.  It runs   *)
(* beside the handlers; an error at any `?` returns from commit_handler,   *)
(* and daemon's try_join! then returns too.                                *)
(***************************************************************************)
\* mutant of BelowWatermark: the counter is not compared
BelowWatermarkNever(tokens) == FALSE

\* accumulated_tokens.load(Relaxed) < commit_high_water_level
BelowWatermark(tokens) == tokens < commit_high_water_level

\* the orders in which a HashMap with the keys S may be traversed
Orders(S) ==
    {o \in [1..Cardinality(S) -> S] :
        \A i, j \in 1..Cardinality(S) : o[i] = o[j] => i = j}

\* the guest's main on inp, its map traversed in order o from position i:
\* the bytes committed, in a sequence of length 1, or <<>> when it panics
RECURSIVE GuestJournal(_, _, _)
GuestJournal(inp, o, i) ==
    IF i > Len(o) THEN << <<>> >>
    ELSE LET claim_buf == ClaimBuf(o[i], inp[o[i]])
             rest == GuestJournal(inp, o, i + 1)
         IN  IF claim_buf = <<>> \/ rest = <<>> THEN <<>>
             ELSE <<claim_buf[1] \o rest[1]>>

\* the key whose 32 bytes are bs (0 when they are the bytes of no key)
PkOf(bs) ==
    IF \E k \in PublicKeys : PkBytes(k) = bs
    THEN CHOOSE k \in PublicKeys : PkBytes(k) = bs
    ELSE 0

\* mutant of DecodeClaim: seq and rounds are read from each other's bytes
DecodeClaimSwapped(claim_buf) ==
    Claim(PkOf(SubSeq(claim_buf, 1, 32)),
          from_be_bytes(SubSeq(claim_buf, 37, 40)),
          from_be_bytes(SubSeq(claim_buf, 33, 36)),
          from_be_bytes(SubSeq(claim_buf, 41, 48)))

\* Deopenchat::Claim { clientPk: claim_buf[..32], seq: from_be_bytes(
\* claim_buf[32..36]), rounds: from_be_bytes(claim_buf[36..40]),
\* numberTokensConsumed: from_be_bytes(claim_buf[40..48]) }, and the
\* common::Claim made of it
DecodeClaim(claim_buf) ==
    Claim(PkOf(SubSeq(claim_buf, 1, 32)),
          from_be_bytes(SubSeq(claim_buf, 33, 36)),
          from_be_bytes(SubSeq(claim_buf, 37, 40)),
          from_be_bytes(SubSeq(claim_buf, 41, 48)))

\* mutant of TxAccepted: the outcome is not looked at
TxAcceptedAlways(outcome) == TRUE

\* the transaction of deopenchat.claim(..).send().await?.watch().await? is
\* included: neither `?` returns
TxAccepted(outcome) == outcome = "accepted"

\* the contract after it has accepted claims: the seq of every client of a
\* claim is the last seq the claim covers
ChainClaim(ch, claims) ==
    [seq |-> [pk \in PublicKeys |->
                 IF \E i \in 1..Len(claims) : claims[i].pk = pk
                 THEN LET i == CHOOSE i \in 1..Len(claims) : claims[i].pk = pk
                      IN  claims[i].start_seq + claims[i].rounds - 1
                 ELSE ch.seq[pk]],
     claimed |-> ch.claimed \o claims]

\* commit_handler returns Err: the loop is over
Exit(error) == [settle EXCEPT !.pc = "exited", !.error = error]

\* the sleep is over: the load of the counter and, at or above the
\* watermark, let keys = self.locks.lock().unwrap().clone() of
\* load_all_history
SettleTick ==
    /\ settle.pc = "sleep"
    /\ IF BelowWatermark(accumulated_tokens)
       THEN UNCHANGED <<settle, lah>>
       ELSE /\ settle' = [settle EXCEPT !.pc = "load_all_history",
                                        !.crossed = TRUE,
                                        !.journal = <<>>, !.buff = <<>>,
                                        !.claims = <<>>]
            /\ lah' = [active |-> TRUE, all |-> locks, keys |-> locks,
                       out |-> NoMap]
    /\ UNCHANGED <<status, history, locks, cmt, accepted, applied, input,
                   guest, accumulated_tokens, handlers, chain, codec,
                   confirmed>>

\* load_all_history: one iteration of its loop
SettleScan(key, fault) ==
    LET r == LoadKeyHistory(status, history, lah.out, key, fault) IN
    /\ settle.pc = "load_all_history"
    /\ key \in lah.keys
    /\ lah' = IF r.res = "Ok"
              THEN [lah EXCEPT !.keys = @ \ {key}, !.out = r.out]
              ELSE Idle
    /\ settle' = IF r.res = "Ok" THEN settle ELSE Exit("load_all_history")
    /\ UNCHANGED <<status, history, locks, cmt, accepted, applied, input,
                   guest, accumulated_tokens, handlers, chain, codec,
                   confirmed>>

\* load_all_history has returned: Input { rounds }, spawn_blocking(prove),
\* encode_seal, and the journal bytes.  The prover fails by itself
\* (outcome), or because the guest panics.
SettleProve(o, outcome) ==
    LET inp == ProverInput(lah.out)
        journal == GuestJournal(inp, o, 1) IN
    /\ settle.pc = "load_all_history"
    /\ lah.keys = {}
    /\ o \in Orders(DOMAIN inp)
    /\ lah' = Idle
    /\ settle' = IF outcome = "proved" /\ journal # <<>>
                 THEN [settle EXCEPT !.pc = "decode", !.journal = journal[1],
                                     !.buff = journal[1]]
                 ELSE Exit("prove")
    /\ UNCHANGED <<status, history, locks, cmt, accepted, applied, input,
                   guest, accumulated_tokens, handlers, chain, codec,
                   confirmed>>

\* one iteration of while buff.len() > 0: journal.split_at(CLAIM_SIZE) panics
\* on a journal shorter than CLAIM_SIZE.  The vector claims is followed for
\* its first MaxDecoded elements; iterations after that leave the variables
\* of the model as they are.
SettleDecode ==
    /\ settle.pc = "decode"
    /\ Len(settle.buff) > 0
    /\ settle' =
          IF Len(settle.journal) < CLAIM_SIZE THEN Exit("panic")
          ELSE [settle EXCEPT
                   !.buff = SubSeq(settle.journal, CLAIM_SIZE + 1,
                                   Len(settle.journal)),
                   !.claims = IF Len(@) < MaxDecoded
                              THEN Append(@, DecodeClaim(
                                      SubSeq(settle.journal, 1, CLAIM_SIZE)))
                              ELSE @]
    /\ UNCHANGED <<status, history, locks, lah, cmt, accepted, applied, input,
                   guest, accumulated_tokens, handlers, chain, codec,
                   confirmed>>

\* buff is empty: commit_claims, and deopenchat.claim(claims, seal) is sent
\* and watched
SettleClaim(outcome) ==
    /\ settle.pc = "decode"
    /\ Len(settle.buff) = 0
    /\ chain' = IF outcome = "accepted" THEN ChainClaim(chain, settle.claims)
                ELSE chain
    /\ settle' = IF TxAccepted(outcome) THEN [settle EXCEPT !.pc = "commit"]
                 ELSE Exit("claim")
    /\ UNCHANGED <<status, history, locks, lah, cmt, accepted, applied, input,
                   guest, accumulated_tokens, handlers, codec, confirmed>>

\* ctx.md_cache.commit(&commit_claims).await?, the store failing at
\* operation fault of the first claim or not at all.  The decode loop ends
\* with one claim at most, so commit holds one write lock at most and is one
\* step.
SettleCommit(fault) ==
    LET faults == [i \in 1..Len(settle.claims) |-> IF i = 1 THEN fault ELSE 0]
        r == Commit(status, history, locks, settle.claims, faults) IN
    /\ settle.pc = "commit"
    /\ status' = r.status
    /\ history' = r.history
    /\ applied' = IF r.res = "Ok" THEN applied \o settle.claims ELSE applied
    /\ settle' = IF r.res = "Ok" THEN [settle EXCEPT !.pc = "sleep"]
                 ELSE Exit("commit")
    /\ UNCHANGED <<locks, lah, cmt, accepted, input, guest,
                   accumulated_tokens, handlers, chain, codec, confirmed>>

\* commit_handler has not returned, so try_join! of daemon is pending and
\* the server runs
Running == settle.pc # "exited"

\* The daemon with its settlement loop: correctly signed requests, the
\* store failing only under the loop's own calls.  When the loop has
\* returned the daemon returns with it, and is started again; the process
\* may also be stopped between the claim transaction and commit.
NextSettle ==
    \/ \E req \in JournalReqs :
          Running /\ CompletionsBegin(req, "funded", 0)
    \/ \E req \in JournalReqs, resp \in JournalResps :
          Running /\ CompletionsEnd(req, resp, 0)
    \/ \E req \in JournalConfirms :
          /\ Running /\ BagCardinality(handlers) < MaxInFlight
          /\ ConfirmBegin(req, 0)
    \/ \E req \in JournalConfirms : Running /\ ConfirmJournal(req, 0)
    \/ \E req \in JournalConfirms : Running /\ ConfirmFetchAdd(req)
    \/ SettleTick
    \/ \E key \in PublicKeys, fault \in 0..2 : SettleScan(key, fault)
    \/ \E o \in UNION {Orders(S) : S \in SUBSET PublicKeys},
          outcome \in {"proved", "prover_error"} : SettleProve(o, outcome)
    \/ SettleDecode
    \/ \E outcome \in {"accepted", "rejected", "rpc_error"} :
          SettleClaim(outcome)
    \/ \E fault \in 0..3 : SettleCommit(fault)
    \/ (~Running \/ settle.pc = "commit") /\ Restart

SpecSettle == Init /\ [][NextSettle]_vars

(***************************************************************************)
(* The settlement loop with two clients of several rounds each, so that a  *)
(* snapshot holds the rounds of two keys and the proof journal two frames. *)
(* Requests are correctly signed, the store, the prover and the chain do   *)
(* not fail.                                                               *)
(***************************************************************************)
\* largest request sequence number either client presents here
MaxRound == 2

RoundReqs == {SignedReq(pk, seq) : pk \in PublicKeys, seq \in 1..MaxRound}

RoundConfirms ==
    {SignedConfirm(pk, seq, 1, 2) : pk \in PublicKeys, seq \in 1..MaxRound}

NextDecode ==
    \/ \E req \in RoundReqs : Running /\ CompletionsBegin(req, "funded", 0)
    \/ \E req \in RoundReqs, resp \in JournalResps :
          Running /\ CompletionsEnd(req, resp, 0)
    \/ \E req \in RoundConfirms :
          /\ Running /\ BagCardinality(handlers) < MaxInFlight
          /\ ConfirmBegin(req, 0)
    \/ \E req \in RoundConfirms : Running /\ ConfirmJournal(req, 0)
    \/ \E req \in RoundConfirms : Running /\ ConfirmFetchAdd(req)
    \/ SettleTick
    \/ \E key \in PublicKeys : SettleScan(key, 0)
    \/ \E o \in UNION {Orders(S) : S \in SUBSET PublicKeys} :
          SettleProve(o, "proved")
    \/ SettleDecode
    \/ SettleClaim("accepted")
    \/ SettleCommit(0)

SpecDecode == Init /\ [][NextDecode]_vars

\* commit_handler is a task of its own and its decode loop has no await:
\* an iteration that can run does run, and so does the send of the
\* transaction once the loop is over
SpecDecodeFair ==
    /\ Init /\ [][NextDecode]_vars
    /\ WF_vars(SettleDecode)
    /\ WF_vars(SettleClaim("accepted"))


(***************************************************************************)
(* The settlement loop over a longer history: the first client presents    *)
(* enough requests for a snapshot of several rounds, the second client is  *)
(* registered and mostly has nothing to settle.  Nothing fails.            *)
(***************************************************************************)
\* largest request sequence number the first client presents here
MaxSettled == 3

SnapshotReqs ==
    {SignedReq(1, seq) : seq \in 1..MaxSettled}
       \cup {SignedReq(2, seq) : seq \in 1..(MaxSettled - 2)}

SnapshotConfirms ==
    {SignedConfirm(req.pk, req.request.msg.seq, 1, 2) : req \in SnapshotReqs}

NextSnapshot ==
    \/ \E req \in SnapshotReqs : Running /\ CompletionsBegin(req, "funded", 0)
    \/ \E req \in SnapshotReqs, resp \in JournalResps :
          Running /\ CompletionsEnd(req, resp, 0)
    \/ \E req \in SnapshotConfirms :
          /\ Running /\ BagCardinality(handlers) < MaxInFlight
          /\ ConfirmBegin(req, 0)
    \/ \E req \in SnapshotConfirms : Running /\ ConfirmJournal(req, 0)
    \/ \E req \in SnapshotConfirms : Running /\ ConfirmFetchAdd(req)
    \/ SettleTick
    \/ \E key \in PublicKeys : SettleScan(key, 0)
    \/ \E o \in UNION {Orders(S) : S \in SUBSET PublicKeys} :
          SettleProve(o, "proved")
    \/ SettleDecode
    \/ SettleClaim("accepted")
    \/ SettleCommit(0)

SpecSnapshot == Init /\ [][NextSnapshot]_vars

(***************************************************************************)
(* The daemon started on another cache directory.  daemon passes           *)
(* --cache-dir to MetadataCache::new, which reads nothing: when the        *)
(* directory is new or was emptied, the journal starts without status and  *)
(* history records while the contract keeps the seq of every client.       *)
(***************************************************************************)
\* the most claims the contract has accepted when the cache directory is
\* changed
MaxLost == 1

StartOnEmptyCache ==
    /\ Len(chain.claimed) <= MaxLost
    /\ status' = <<>>
    /\ history' = <<>>
    /\ accepted' = [pk \in PublicKeys |-> <<>>]
    /\ applied' = <<>>
    /\ locks' = {}
    /\ accumulated_tokens' = 0
    /\ handlers' = EmptyBag
    /\ confirmed' = EmptyBag
    /\ settle' = SettleStart
    /\ lah' = Idle
    /\ cmt' = Idle
    /\ UNCHANGED <<input, guest, chain, codec>>

\* The handlers and the settlement loop, nothing failing, the seq endpoint,
\* and the daemon started again on an empty cache directory.
NextLost ==
    \/ \E req \in JournalReqs : Running /\ CompletionsBegin(req, "funded", 0)
    \/ \E req \in JournalReqs, resp \in JournalResps :
          Running /\ CompletionsEnd(req, resp, 0)
    \/ \E req \in JournalConfirms :
          /\ Running /\ BagCardinality(handlers) < MaxInFlight
          /\ ConfirmBegin(req, 0)
    \/ \E req \in JournalConfirms : Running /\ ConfirmJournal(req, 0)
    \/ \E req \in JournalConfirms : Running /\ ConfirmFetchAdd(req)
    \/ \E pk \in PublicKeys : CurrentSeqGet(pk, 0)
    \/ SettleTick
    \/ \E key \in PublicKeys : SettleScan(key, 0)
    \/ \E o \in UNION {Orders(S) : S \in SUBSET PublicKeys} :
          SettleProve(o, "proved")
    \/ SettleDecode
    \/ SettleClaim("accepted")
    \/ SettleCommit(0)
    \/ StartOnEmptyCache

SpecLost == Init /\ [][NextLost]_vars

(***************************************************************************)
(* The claim codec on its own: a Claim is encoded as the guest does and    *)
(* the 48 bytes are decoded as the settlement loop does.                   *)
(***************************************************************************)
\* values of the u32 and u64 fields: one, two, three and four bytes long
CodecValues == {1, 258, 65536, 2147483647}

CodecClaims ==
    {Claim(pk, start_seq, rounds, tokens_consumed) :
        pk \in PublicKeys, start_seq \in CodecValues,
        rounds \in CodecValues \ {258}, tokens_consumed \in CodecValues \ {1}}

InitCodec ==
    /\ status = <<>>
    /\ history = <<>>
    /\ locks = {}
    /\ lah = Idle
    /\ cmt = Idle
    /\ accepted = [pk \in PublicKeys |-> <<>>]
    /\ applied = <<>>
    /\ input = NoMap
    /\ guest = GuestStart(NoMap)
    /\ DaemonStart
    /\ codec \in {[claim |-> <<claim>>, bytes |-> <<>>, decoded |-> <<>>] :
                     claim \in CodecClaims}

\* let claim_buf: [u8; 48] = claim.into()
ClaimEncode ==
    /\ codec.claim # <<>> /\ codec.bytes = <<>>
    /\ codec' = [codec EXCEPT !.bytes = <<ClaimBytes(codec.claim[1])>>]
    /\ UNCHANGED <<status, history, locks, lah, cmt, accepted, applied, input,
                   guest, accumulated_tokens, handlers, chain, settle,
                   confirmed>>

\* the body of the decode loop on these 48 bytes
ClaimDecode ==
    /\ codec.bytes # <<>> /\ codec.decoded = <<>>
    /\ codec' = [codec EXCEPT !.decoded = <<DecodeClaim(codec.bytes[1])>>]
    /\ UNCHANGED <<status, history, locks, lah, cmt, accepted, applied, input,
                   guest, accumulated_tokens, handlers, chain, settle,
                   confirmed>>

NextCodec == ClaimEncode \/ ClaimDecode

SpecCodec == InitCodec /\ [][NextCodec]_vars

(***************************************************************************)
(* Properties of the journal.  The state machine of the specification      *)
(* (section 4.3) is restated here on its own, next to the code's guards.   *)
(***************************************************************************)
IsReq(e) == e[1] = "req"

\* the seq values of the req calls of pk that returned Ok, in order
AcceptedReqSeqs(pk) == SelectSeq(accepted[pk], IsReq)

\* C1: for every client, the seq values of the accepted req calls are
\* 1, 2, 3, ... in order: the i-th accepted req has seq i.
C1_AcceptedSeqsConsecutive ==
    \A pk \in PublicKeys :
        \A i \in 1..Len(AcceptedReqSeqs(pk)) : AcceptedReqSeqs(pk)[i][2] = i

C1_Witness ==
    \E pk \in PublicKeys : Len(AcceptedReqSeqs(pk)) >= 2

\* the state of client pk on disk, Absent when it has no status record
StateOf(st, pk) == IF pk \in DOMAIN st THEN st[pk].state ELSE "Absent"

\* the op that makes each move of the state machine
MoveOp(from, to) ==
    CASE from = "Absent" /\ to = Requested -> "req"
      [] from = Completed /\ to = Requested -> "req"
      [] from = Requested /\ to = WaitingConfirm -> "resp"
      [] from = WaitingConfirm /\ to = Completed -> "confirm"
      [] OTHER -> "none"

\* the i-th call of a client that follows the protocol:
\* req 1, resp 1, confirm 1, req 2, ...
ProtocolCall(i) ==
    <<CASE i % 3 = 1 -> "req" [] i % 3 = 2 -> "resp" [] OTHER -> "confirm",
      (i + 2) \div 3>>

\* C2: the persisted state of a client only moves absent -> Requested (by
\* an accepted req), Requested -> WaitingConfirm (resp), WaitingConfirm ->
\* Completed (confirm), Completed -> Requested (req); and the accepted calls
\* of a client are req n, resp n, confirm n in that order before req n+1.
C2_StateMachineOrder ==
    [][\A pk \in PublicKeys :
          /\ LET from == StateOf(status, pk)
                 to == StateOf(status', pk)
             IN  \/ /\ from = to
                    /\ pk \in DOMAIN status => status'[pk].seq = status[pk].seq
                    /\ accepted'[pk] = accepted[pk]
                 \/ /\ MoveOp(from, to) # "none"
                    /\ accepted'[pk] =
                         Append(accepted[pk],
                                <<MoveOp(from, to), status'[pk].seq>>)
          /\ \A i \in 1..Len(accepted'[pk]) :
                accepted'[pk][i] = ProtocolCall(i)]_vars

C2_Witness ==
    \E pk \in PublicKeys :
        /\ Len(accepted[pk]) >= 4
        /\ accepted[pk][4] = <<"req", 2>>
        /\ status[pk].state = Requested

\* the guards of the state machine table of the specification
ReqAllowed(pk, seq) ==
    IF pk \in DOMAIN status
    THEN status[pk].state = Completed /\ seq = status[pk].seq + 1
    ELSE seq = 1
RespAllowed(pk, seq) ==
    pk \in DOMAIN status /\ status[pk].state = Requested
        /\ seq = status[pk].seq
ConfirmAllowed(pk, seq) ==
    pk \in DOMAIN status /\ status[pk].state = WaitingConfirm
        /\ seq = status[pk].seq

\* the call returned an error and wrote nothing
Rejected(r) == r.res # "Ok" /\ r.status = status /\ r.history = history

\* C3: a req, resp or confirm call whose state guard or seq guard fails
\* returns an error and leaves every status and history record as it was.
C3_GuardFailureNoMutation ==
    /\ \A req \in JournalReqs, fault \in 0..2 :
          ~ReqAllowed(req.pk, req.request.msg.seq)
              => Rejected(ReqCall(status, history, req, fault))
    /\ \A req \in JournalReqs, resp \in JournalResps, fault \in 0..3 :
          ~RespAllowed(req.pk, req.request.msg.seq)
              => Rejected(RespCall(status, history, req, resp, fault))
    /\ \A confirm \in JournalConfirms, fault \in 0..4 :
          ~ConfirmAllowed(confirm.pk, confirm.confirm.msg.seq)
              => Rejected(ConfirmCall(status, history, confirm, fault))

\* a state with records on disk where a confirm for an earlier round, whose
\* history record exists, is rejected by the seq guard
C3_Witness ==
    \E confirm \in JournalConfirms :
        /\ confirm.pk \in DOMAIN status
        /\ status[confirm.pk].state = WaitingConfirm
        /\ confirm.confirm.msg.seq < status[confirm.pk].seq
        /\ HKey(confirm.pk, confirm.confirm.msg.seq) \in DOMAIN history
        /\ ConfirmCall(status, history, confirm, 0).res = "EnsureFailed"

\* C4: every persisted PeerStatus has commit_seq <= seq.
C4_CommitSeqAtMostSeq ==
    \A pk \in DOMAIN status : status[pk].commit_seq <= status[pk].seq

\* commit has advanced commit_seq up to seq
C4_Witness ==
    \E pk \in DOMAIN status :
        status[pk].commit_seq = status[pk].seq /\ status[pk].seq >= 2

\* round seq of pk is past Requested: its response was recorded
PastRequested(pk, seq) ==
    seq < status[pk].seq \/ status[pk].state # Requested

\* C5: a history record for (pk, seq) exists on disk if and only if
\* commit_seq < seq <= status.seq and the round is past Requested.
C5_HistoryIffUnsettledRound ==
    \A pk \in PublicKeys, seq \in 1..MaxSeq :
        HKey(pk, seq) \in DOMAIN history
            <=> /\ pk \in DOMAIN status
                /\ status[pk].commit_seq < seq
                /\ seq <= status[pk].seq
                /\ PastRequested(pk, seq)

\* C8: when commit has succeeded on a slice of claims, a second call of
\* commit on the same slice, whatever store fault ends it, leaves status
\* and history as the first call left them; it returns Ok only if no claim
\* of the slice covers a round, and an error otherwise.
C8_CommitIdempotent ==
    cmt.active =>
        \A at \in 0..Len(applied), fault \in 1..(2 + MaxSeq) :
            LET faults == [i \in 1..Len(applied) |-> IF i = at THEN fault ELSE 0]
                r == Commit(status, history, locks, applied, faults)
            IN
            /\ r.status = status
            /\ r.history = history
            /\ (\E i \in 1..Len(applied) : applied[i].rounds > 0)
                  => r.res # "Ok"

\* commit has succeeded on a slice that settled the first round of a key,
\* and the key has a later round that the second guard alone would let a
\* second call settle
C8_Witness ==
    /\ cmt.active
    /\ \E i \in 1..Len(applied) :
          /\ applied[i].rounds > 0
          /\ status[applied[i].pk].seq
                >= status[applied[i].pk].commit_seq + applied[i].rounds

\* C9: in every reachable state and for every claim, commit applies the
\* claim only when commit_seq + 1 = start_seq and seq >= commit_seq + rounds; when it applies it, commit_seq grows by
\* exactly rounds, the history records of [start_seq, start_seq + rounds) no
\* longer exist, and seq, state and every other history record are unchanged.
C9_CommitAppliesClaim ==
    LET keys == IF cmt.active THEN cmt.keys ELSE locks IN
    \A claim \in ClaimArgs : \A fault \in 0..(2 + claim.rounds) :
        LET pk == claim.pk
            r == CommitClaim(status, history, keys, claim, fault)
            covered == {HKey(pk, seq) : seq \in
                          claim.start_seq..(claim.start_seq + claim.rounds - 1)}
        IN  /\ (r.status # status \/ r.history # history \/ r.res = "Ok")
                  => /\ pk \in DOMAIN status
                     /\ status[pk].commit_seq + 1 = claim.start_seq
                     /\ status[pk].seq >= status[pk].commit_seq + claim.rounds
            /\ r.res = "Ok"
                  => /\ r.status = [status EXCEPT ![pk].commit_seq =
                                       status[pk].commit_seq + claim.rounds]
                     /\ DOMAIN r.history = DOMAIN history \ covered
                     /\ \A hk \in DOMAIN r.history : r.history[hk] = history[hk]

\* a commit call in progress has applied a claim of one round: the covered
\* record is gone and the record of the next round is still there
C9_Witness ==
    /\ cmt.active
    /\ \E pk \in DOMAIN status :
          /\ status[pk].commit_seq = 1
          /\ status[pk].seq = 2
          /\ HKey(pk, 1) \notin DOMAIN history
          /\ HKey(pk, 2) \in DOMAIN history

\* the history records of pk with commit_seq < seq <= status.seq - 1, in
\* increasing seq order
UnsettledRounds(pk) ==
    [i \in 1..(status[pk].seq - 1 - status[pk].commit_seq) |->
        history[HKey(pk, status[pk].commit_seq + i)]]

\* C10: load_all_history visits every key of the lock registry; for each it
\* returns exactly the history records with commit_seq < seq <= status.seq - 1
\* in increasing seq order, omits the key when that range is empty, and
\* never returns the record of the current round status.seq.
C10_LoadAllHistoryRange ==
    [][/\ LoadAllHistoryCall => lah'.keys = locks /\ lah'.out = NoMap
       /\ LoadAllHistoryReturn => lah.keys = {}
       /\ \A key \in PublicKeys, fault \in 0..2 :
             LoadAllHistoryStep(key, fault) /\ lah'.active =>
               /\ lah'.keys = lah.keys \ {key}
               /\ key \in DOMAIN status
               /\ \A seq \in (status[key].commit_seq + 1)..(status[key].seq - 1) :
                     HKey(key, seq) \in DOMAIN history
               /\ DOMAIN lah'.out =
                     IF UnsettledRounds(key) # <<>>
                     THEN DOMAIN lah.out \cup {key} ELSE DOMAIN lah.out
               /\ \A k \in DOMAIN lah'.out :
                     lah'.out[k] = IF k = key THEN UnsettledRounds(key)
                                   ELSE lah.out[k]
               /\ key \in DOMAIN lah'.out =>
                     \A i \in 1..Len(lah'.out[key]) :
                        /\ lah'.out[key][i].seq = status[key].commit_seq + i
                        /\ lah'.out[key][i].seq < status[key].seq
      ]_vars

\* a scan that has visited both keys of the registry: the first client has
\* a settled-eligible round in the map, the second has a status record and
\* an empty range and is omitted
C10_Witness ==
    /\ lah.active
    /\ lah.all = PublicKeys
    /\ lah.keys = {}
    /\ DOMAIN lah.out = {1}
    /\ Len(lah.out[1]) >= 1
    /\ 2 \in DOMAIN status


(***************************************************************************)
(* Properties of the zk guest.                                             *)
(***************************************************************************)
\* the i-th frame of CLAIM_SIZE bytes of the byte string bs
Frame(bs, i) == SubSeq(bs, (i - 1) * CLAIM_SIZE + 1, i * CLAIM_SIZE)

\* the sum of input_tokens + resp_tokens over the rounds rs
RECURSIVE TokensOf(_)
TokensOf(rs) ==
    IF rs = <<>> THEN 0
    ELSE rs[1].confirm.msg.input_tokens + rs[1].confirm.msg.resp_tokens
            + TokensOf(Tail(rs))

\* the round list rs of pk is not empty, its request and confirm seqs count
\* up by one from the first request seq, and every signature verifies
WellFormed(pk, rs) ==
    /\ rs # <<>>
    /\ \A k \in 1..Len(rs) :
          /\ rs[k].request.msg.seq = rs[1].request.msg.seq + k - 1
          /\ rs[k].confirm.msg.seq = rs[1].request.msg.seq + k - 1
          /\ rs[k].request.signature
                = Sign(pk, to_be_bytes(rs[k].request.msg.seq, 4))
          /\ rs[k].confirm.signature
                = Sign(pk, to_be_bytes(rs[k].confirm.msg.seq, 4)
                            \o to_be_bytes(rs[k].confirm.msg.input_tokens, 4)
                            \o to_be_bytes(rs[k].confirm.msg.resp_tokens, 4))

\* C6: when the guest commits a journal, the round list of every key of the
\* Input passes every check (not empty, request and confirm seqs consecutive
\* from the first, both signatures of every round valid under the key), and
\* every frame of the journal is the claim of a key of the Input: start_seq
\* the seq of its first round, rounds the length of its list,
\* tokens_consumed the sum of input_tokens + resp_tokens over the list.  A
\* guest that panicked has committed nothing.
C6_CircuitClaims ==
    /\ guest.pc = "panicked" => guest.journal = <<>>
    /\ guest.journal # <<>> =>
          LET journal == guest.journal[1] IN
          /\ \A pk \in DOMAIN input : WellFormed(pk, input[pk])
          /\ \A i \in 1..(Len(journal) \div CLAIM_SIZE) :
                LET frame == Frame(journal, i) IN
                \E pk \in DOMAIN input :
                    /\ SubSeq(frame, 1, PUBLIC_KEY_SIZE) = PkBytes(pk)
                    /\ from_be_bytes(SubSeq(frame, 33, 36))
                          = input[pk][1].request.msg.seq
                    /\ from_be_bytes(SubSeq(frame, 37, 40)) = Len(input[pk])
                    /\ from_be_bytes(SubSeq(frame, 41, 48))
                          = TokensOf(input[pk])

\* the guest has committed the claims of two keys, one of them with a list
\* of two rounds
C6_Witness ==
    /\ guest.journal # <<>>
    /\ DOMAIN input = PublicKeys
    /\ \E pk \in DOMAIN input : Len(input[pk]) = 2

\* C7: the journal the guest commits is CLAIM_SIZE = 48 bytes for each key
\* of the Input, one frame per key, the pk fields of the frames being
\* pairwise distinct and exactly the keys of the Input.
C7_JournalFrames ==
    guest.journal # <<>> =>
        LET journal == guest.journal[1]
            n == Cardinality(DOMAIN input)
            FramePk(i) == SubSeq(Frame(journal, i), 1, PUBLIC_KEY_SIZE)
        IN  /\ Len(journal) = 48 * n
            /\ Len(journal) % 48 = 0
            /\ \A i, j \in 1..n : i # j => FramePk(i) # FramePk(j)
            /\ {FramePk(i) : i \in 1..n} = {PkBytes(pk) : pk \in DOMAIN input}

\* the guest has committed a journal of two frames
C7_Witness ==
    /\ guest.journal # <<>>
    /\ Len(guest.journal[1]) = 2 * CLAIM_SIZE

(***************************************************************************)
(* Properties of the scan, seen from the settlement loop.                  *)
(***************************************************************************)
\* the round seq of key has a confirm recorded and is not yet settled
ConfirmedUnsettled(key, seq) ==
    /\ HKey(key, seq) \in DOMAIN history
    /\ history[HKey(key, seq)].confirm_msg # <<>>
    /\ seq > status[key].commit_seq

\* the map out holds the round seq of key
Returns(out, key, seq) ==
    /\ key \in DOMAIN out
    /\ \E i \in 1..Len(out[key]) : out[key][i].seq = seq

\* C11 as stated: in every reachable state, a load_all_history iteration
\* that succeeds for a registered key returns every round of the key that
\* has a confirm recorded and seq > commit_seq.
C11_ConfirmedUnsettledReturned ==
    \A key \in locks :
        LET r == LoadKeyHistory(status, history, NoMap, key, 0) IN
        r.res = "Ok" =>
            \A seq \in 1..MaxSeq :
                ConfirmedUnsettled(key, seq) => Returns(r.out, key, seq)

\* C11 amended: in every reachable state, a load_all_history iteration that
\* succeeds for a registered key returns every round of the key that has a
\* confirm recorded and commit_seq < seq < status.seq; the round status.seq
\* is not returned even when its confirm is recorded (state Completed).
C11_ConfirmedBelowSeqReturned ==
    \A key \in locks :
        LET r == LoadKeyHistory(status, history, NoMap, key, 0) IN
        r.res = "Ok" =>
            \A seq \in 1..MaxSeq :
                /\ (ConfirmedUnsettled(key, seq) /\ seq < status[key].seq)
                      => Returns(r.out, key, seq)
                /\ seq >= status[key].seq => ~Returns(r.out, key, seq)

\* a scan has returned the confirmed first round of a key whose second round
\* is confirmed too and is not in the map
C11_Witness ==
    /\ lah.active
    /\ \E key \in DOMAIN lah.out :
          /\ status[key].seq = 2
          /\ status[key].state = Completed
          /\ ConfirmedUnsettled(key, 1) /\ ConfirmedUnsettled(key, 2)
          /\ Returns(lah.out, key, 1) /\ ~Returns(lah.out, key, 2)


(***************************************************************************)
(* Properties of the HTTP front end.                                       *)
(***************************************************************************)

\* msg reports less than the backend's usage in one of the two counts
UnderReports(msg, usage) ==
    \/ msg.input_tokens < usage.prompt_tokens
    \/ msg.resp_tokens < usage.completion_tokens

\* the round of the history table a confirm request is about
RoundOf(hi, req) == hi[HKey(req.pk, req.confirm.msg.seq)]

HasRound(hi, req) == HKey(req.pk, req.confirm.msg.seq) \in DOMAIN hi

\* C12: a confirm request that reports less than the backend's usage of its
\* round in input_tokens or in resp_tokens is rejected whatever the store
\* does, so it is never in flight towards the journal, never recorded in the
\* history table and never counted in accumulated_tokens: the client's state,
\* history record and counter stay as they were.  A correctly signed confirm
\* of a recorded round that reports equal or larger counts passes the check.
C12_UnderReportRejected ==
    /\ \A req \in ConfirmRequests : \A fault \in 0..1 :
          HasRound(history, req) =>
             IF UnderReports(req.confirm.msg, RoundOf(history, req).resp.usage)
             THEN ~ConfirmChecks(history, req, fault)
             ELSE Verify(req.pk, ConfirmMsgBytes(req.confirm.msg),
                         req.confirm.signature)
                     => ConfirmChecks(history, req, 0)
    /\ \A h \in BagToSet(handlers) :
          h.op = "completions_confirm" /\ HasRound(history, h.req) =>
             ~UnderReports(h.req.confirm.msg,
                           RoundOf(history, h.req).resp.usage)
    /\ \A k \in DOMAIN history :
          history[k].confirm_msg # <<>> =>
             ~UnderReports(history[k].confirm_msg[1].confirm.msg,
                           history[k].resp.usage)
    /\ \A req \in BagToSet(confirmed) :
          ~UnderReports(req.confirm.msg, CompletionsResp(1, 2).usage)

\* client 1 waits for the confirm of round 1, the over-reporting confirm has
\* passed the checks and is in flight, and the under-reporting ones are not
C12_Witness ==
    /\ 1 \in DOMAIN status
    /\ status[1] = PeerStatus(1, 0, WaitingConfirm)
    /\ HKey(1, 1) \in DOMAIN history
    /\ history[HKey(1, 1)].confirm_msg = <<>>
    /\ accumulated_tokens = 0
    /\ BagIn(Handler("completions_confirm", "confirm",
                     SignedConfirm(1, 1, 2, 3), <<>>), handlers)


\* input_tokens + resp_tokens summed over the requests of a bag
RECURSIVE SumTokens(_)
SumTokens(B) ==
    IF DOMAIN B = {} THEN 0
    ELSE LET req == CHOOSE r \in DOMAIN B : TRUE IN
         B[req] * (req.confirm.msg.input_tokens + req.confirm.msg.resp_tokens)
            + SumTokens([r \in DOMAIN B \ {req} |-> B[r]])

\* the confirm handlers whose journal.confirm has returned Ok and whose
\* fetch_add is still to come
Adding == {h \in BagToSet(handlers) :
              h.op = "completions_confirm" /\ h.pc = "fetch_add"}

\* how often round (pk, seq) has been counted, or is about to be, since the
\* process started
TimesCounted(pk, seq) ==
    LET about(req) == req.pk = pk /\ req.confirm.msg.seq = seq
        part(B, S) == [x \in S |-> B[x]]
    IN  BagCardinality(part(confirmed,
                            {req \in DOMAIN confirmed : about(req)}))
           + BagCardinality(part(handlers, {h \in Adding : about(h.req)}))

\* C13: accumulated_tokens is the sum of input_tokens + resp_tokens over the
\* confirm requests the gateway has answered Ok since the process started;
\* every such request, and every one between journal.confirm and fetch_add,
\* is one the journal accepted and is the confirm recorded in its round;
\* and no round (pk, seq) is counted more than once, also when several
\* confirm requests of it are in flight together.
C13_CounterIsSumOfAccepted ==
    /\ accumulated_tokens = SumTokens(confirmed)
    /\ \A req \in DOMAIN confirmed \cup {h.req : h \in Adding} :
          /\ \E i \in DOMAIN accepted[req.pk] :
                accepted[req.pk][i] = <<"confirm", req.confirm.msg.seq>>
          /\ HasRound(history, req) =>
                RoundOf(history, req).confirm_msg = <<req>>
    /\ \A pk \in PublicKeys : \A seq \in Seqs(pk) : TimesCounted(pk, seq) <= 1

\* two confirm requests of round (1, 1) are in flight together, the journal
\* has accepted one of them, and the round of client 2 has been counted
C13_Witness ==
    /\ BagIn(Handler("completions_confirm", "fetch_add",
                     SignedConfirm(1, 1, 1, 2), <<>>), handlers)
    /\ BagIn(Handler("completions_confirm", "confirm",
                     SignedConfirm(1, 1, 2, 3), <<>>), handlers)
    /\ confirmed = SetToBag({SignedConfirm(2, 1, 2, 3)})
    /\ accumulated_tokens = 5


\* C14: the seq endpoint, when it answers for a client with a status record
\* on disk, answers a seq that is not smaller than the seq of that record,
\* the latest request of the client the gateway has accepted, also after a
\* restart on the same cache directory.
C14_SeqNotBehindDisk ==
    \A pk \in DOMAIN status :
       LET answer == CurrentSeq(locks, status, chain, pk, 0) IN
       answer # <<>> => answer[1] >= status[pk].seq


\* the completions call of handler h for req ends in an error at the backend
\* call or at journal.resp
CompletionsFails(req) ==
    \/ CompletionsBackendError(req)
    \/ \E resp \in JournalResps, fault \in 0..3 :
          /\ RespCall(status, history, req, resp, fault).res # "Ok"
          /\ CompletionsEnd(req, resp, fault)

\* C15: when a completions call fails at the backend call or at journal.resp,
\* the client's persisted status is the one it had when the request arrived.
C15_FailedCallLeavesStatus ==
    [][\A req \in CompletionsRequests :
          \A h \in InFlight("completions", "backend", req) :
             CompletionsFails(req) => StatusOf(status', req.pk) = h.before]_vars


\* the signatures and seqs of history record rd are those of round (pk, seq)
ValidRound(pk, seq, rd) ==
    /\ rd.seq = seq
    /\ rd.req.pk = pk
    /\ rd.req.request.msg.seq = seq
    /\ Verify(pk, to_be_bytes(seq, 4), rd.req.request.signature)
    /\ rd.confirm_msg # <<>> =>
          LET confirm == rd.confirm_msg[1].confirm IN
          /\ rd.confirm_msg[1].pk = pk
          /\ confirm.msg.seq = seq
          /\ Verify(pk, to_be_bytes(seq, 4)
                           \o to_be_bytes(confirm.msg.input_tokens, 4)
                           \o to_be_bytes(confirm.msg.resp_tokens, 4),
                    confirm.signature)

\* what a scan of key would hand to the prover, the store answering
ScanOf(key) == ProverInput(LoadKeyHistory(status, history, NoMap, key, 0).out)

\* C19: every history record (pk, seq) holds a request for seq whose
\* signature verifies under pk over the 4-byte encoding of seq and, when its
\* confirm is set, a confirm for seq whose signature verifies under pk over
\* its 12-byte encoding; and the round list a scan of any registered key
\* hands to the prover passes every check of the guest, which commits a
\* claim for it.
C19_JournalRoundsValid ==
    /\ \A k \in DOMAIN history : ValidRound(k[1], k[2], history[k])
    /\ \A key \in locks :
          LET scan == ScanOf(key) IN
          \A k \in DOMAIN scan :
             ClaimBuf(k, scan[k]) # <<>> /\ WellFormed(k, scan[k])

\* the scan of client 1 holds its confirmed round 1, forged requests having
\* been offered in every state on the way
C19_Witness ==
    /\ 1 \in locks
    /\ 1 \in DOMAIN status
    /\ status[1].seq = 2
    /\ DOMAIN ScanOf(1) = {1}
    /\ Len(ScanOf(1)[1]) = 1
    /\ ScanOf(1)[1][1].confirm.msg.seq = 1


(***************************************************************************)
(* Properties of the settlement loop.                                      *)
(***************************************************************************)
\* the elements of s occur in t, in the order of s
RECURSIVE IsSubSeq(_, _)
IsSubSeq(s, t) ==
    IF s = <<>> THEN TRUE
    ELSE IF t = <<>> THEN FALSE
    ELSE IF Head(s) = Head(t) THEN IsSubSeq(Tail(s), Tail(t))
    ELSE IsSubSeq(s, Tail(t))

\* the last n elements of t
Last(t, n) == SubSeq(t, Len(t) - n + 1, Len(t))

\* C16: journal.commit(claims) is reached only with claims the contract has
\* just accepted, and the claims commit has applied are, in their order,
\* claims the contract had accepted;
\* so the journal is never truncated past what the chain accepted: of every
\* client commit_seq is at most the chain's seq, and the history record of
\* every round after the chain's seq and before status.seq exists, also after
\* an attempt whose claim transaction failed.
C16_CommitAfterAcceptance ==
    /\ settle.pc = "commit" =>
          /\ Len(settle.claims) <= Len(chain.claimed)
          /\ Last(chain.claimed, Len(settle.claims)) = settle.claims
    /\ IsSubSeq(applied, chain.claimed)
    /\ \A pk \in DOMAIN status :
          /\ status[pk].commit_seq <= chain.seq[pk]
          /\ \A seq \in (chain.seq[pk] + 1)..(status[pk].seq - 1) :
                HKey(pk, seq) \in DOMAIN history

\* the contract has accepted the claim of round 1 of client 1 and the loop is
\* about to call commit, which has not run yet
C16_Witness ==
    /\ settle.pc = "commit"
    /\ settle.claims = <<Claim(1, 1, 1, 3)>>
    /\ chain.claimed = <<Claim(1, 1, 1, 3)>>
    /\ chain.seq[1] = 1
    /\ status[1].commit_seq = 0
    /\ HKey(1, 1) \in DOMAIN history

\* C17: after a settlement attempt has failed at the prover or at the claim
\* transaction, the settlement loop is still running: commit_handler has not
\* returned.
C17_LoopSurvivesFailure ==
    settle.error \in {"prove", "claim"} => settle.pc # "exited"

\* C18: the loop is in a settlement attempt (scan, proof, decode, claim
\* transaction, commit) only when the counter is at or above
\* commit_high_water_level; once a tick has found it there it stays there,
\* so every later tick starts an attempt; and the counter is the sum of
\* what the confirms have added since the process started, no settlement
\* step having decreased or reset it.
C18_WatermarkGate ==
    /\ settle.pc \in {"load_all_history", "decode", "commit"} =>
          settle.crossed
    /\ settle.crossed => accumulated_tokens >= commit_high_water_level
    /\ accumulated_tokens = SumTokens(confirmed)

\* a settlement has been committed, and a later tick has started the next
\* attempt on the same counter
C18_Witness ==
    /\ applied # <<>>
    /\ settle.pc = "load_all_history"
    /\ accumulated_tokens >= commit_high_water_level
    /\ status[1].commit_seq = 1


(***************************************************************************)
(* Properties of the claim codec.                                          *)
(***************************************************************************)
\* the number the four bytes bs[i..i+3] are the big-endian digits of
BigEndian4(bs, i) ==
    bs[i] * 16777216 + bs[i + 1] * 65536 + bs[i + 2] * 256 + bs[i + 3]

\* C20: the encoding of a Claim is 48 bytes: the 32 bytes of pk, start_seq
\* in 4 bytes big-endian, rounds in 4 bytes big-endian, tokens_consumed in 8
\* bytes big-endian; and the frame decoder of the settlement loop makes of
\* them the same pk, start_seq, rounds and tokens_consumed.
C20_ClaimRoundTrip ==
    /\ codec.bytes # <<>> =>
          LET claim == codec.claim[1]
              bs == codec.bytes[1] IN
          /\ Len(bs) = 48
          /\ \A i \in 1..48 : bs[i] \in 0..255
          /\ \A i \in 1..32 : bs[i] = PkBytes(claim.pk)[i]
          /\ BigEndian4(bs, 33) = claim.start_seq
          /\ BigEndian4(bs, 37) = claim.rounds
          /\ BigEndian4(bs, 41) = 0
          /\ BigEndian4(bs, 45) = claim.tokens_consumed
    /\ codec.decoded # <<>> => codec.decoded = codec.claim

\* a claim whose fields take one to four bytes has gone through both
\* conversions
C20_Witness ==
    /\ codec.claim = <<Claim(2, 258, 65536, 2147483647)>>
    /\ codec.bytes = <<ClaimBytes(Claim(2, 258, 65536, 2147483647))>>
    /\ codec.decoded = <<Claim(2, 258, 65536, 2147483647)>>

(***************************************************************************)
(* Properties of the decode loop of the settlement loop.                   *)
(***************************************************************************)
\* the number of claim frames of the byte string bs
Frames(bs) == Len(bs) \div CLAIM_SIZE

\* C21: the claims the settlement loop has decoded from a proof journal of
\* k frames are, in order, the claims of its frames: the i-th claim is
\* decoded from the i-th 48 bytes, there are never more than k of them, and
\* when the loop is over and the claims go to the chain call and to
\* journal.commit there are exactly k.
C21_ClaimsAreTheFrames ==
    settle.pc \in {"decode", "commit"} =>
        /\ Len(settle.claims) <= Frames(settle.journal)
        /\ \A i \in 1..Len(settle.claims) :
              settle.claims[i] = DecodeClaim(Frame(settle.journal, i))
        /\ (settle.pc = "commit" \/ Len(settle.buff) = 0)
              => Len(settle.claims) = Frames(settle.journal)

\* C22: whenever the settlement loop has a proof journal to decode, its
\* decode loop comes to an end and the claim transaction is submitted (here
\* the contract accepts it, so the attempt arrives at commit).
C22_DecodeLoopEnds == (settle.pc = "decode") ~> (settle.pc = "commit")

(***************************************************************************)
(* Properties of a failing commit.                                         *)
(***************************************************************************)
\* C23: in every reachable state, an iteration of commit that fails for its
\* claim (unknown key, guard failure, or a store error at the read, the write
\* or any remove) leaves no partial effect: commit_seq of the key has been
\* advanced past the claim's range if and only if every history record of
\* the range is gone, and when it has not been advanced no record has been
\* removed.
C23_FailedClaimHasNoPartialEffect ==
    LET keys == IF cmt.active THEN cmt.keys ELSE locks IN
    \A claim \in ClaimArgs : \A fault \in 0..(2 + claim.rounds) :
        LET pk == claim.pk
            r == CommitClaim(status, history, keys, claim, fault)
            covered == {HKey(pk, seq) : seq \in
                          claim.start_seq..(claim.start_seq + claim.rounds - 1)}
        IN  r.res # "Ok" =>
               IF r.status # status
               THEN covered \cap DOMAIN r.history = {}
               ELSE r.history = history

(***************************************************************************)
(* Properties of a round whose backend call failed.                        *)
(***************************************************************************)
\* journal.req was accepted for the current round of pk and the handler that
\* made the call has answered without recording a response: the status is
\* Requested and no completions handler of pk is in flight
Stuck(pk) ==
    /\ pk \in DOMAIN status
    /\ status[pk].state = Requested
    /\ \A h \in BagToSet(handlers) :
          ~(h.op = "completions" /\ h.req.pk = pk)

\* C24: once the handler of an accepted request of pk has ended with the
\* round still Requested (the backend call failed), every step of the
\* gateway leaves the status of pk at the same seq in state Requested: no
\* completions request of pk, whatever its seq, and no confirm of pk is
\* accepted by the journal or taken up by a handler again, and a commit of
\* claims of pk changes neither seq nor state.
C24_StuckInRequested ==
    [][\A pk \in PublicKeys :
          Stuck(pk) =>
             /\ Stuck(pk)'
             /\ status'[pk].seq = status[pk].seq
             /\ accepted'[pk] = accepted[pk]
             /\ \A claim \in ClaimArgs : \A fault \in 0..(2 + claim.rounds) :
                   claim.pk = pk =>
                      LET r == CommitClaim(status, history, locks, claim,
                                           fault)
                      IN  /\ r.status[pk].seq = status[pk].seq
                          /\ r.status[pk].state = Requested
      ]_vars

\* the second round of the first client is stuck: request 2 was the last
\* call the journal accepted, its handler has ended and no response is
\* recorded
C24_Witness ==
    /\ Stuck(1)
    /\ status[1].seq = 2
    /\ HKey(1, 2) \notin DOMAIN history
    /\ Len(accepted[1]) = 4
    /\ accepted[1][4] = <<"req", 2>>

(***************************************************************************)
(* Properties of the prover's Input.                                       *)
(***************************************************************************)
\* C25: while the settlement loop holds a snapshot, the Input it builds of
\* it has, for each of its keys, a round list that is not empty, that lost
\* no round to the confirm filter (every round read has a confirm) and
\* whose request seqs count up by one; and each of its keys has a confirmed
\* round above commit_seq, so a client without one is not in the Input.
C25_InputListsConsecutive ==
    settle.pc = "load_all_history" =>
        LET inp == ProverInput(lah.out) IN
        \A k \in DOMAIN inp :
            /\ inp[k] # <<>>
            /\ \A i \in 1..Len(lah.out[k]) : lah.out[k][i].confirm_msg # <<>>
            /\ Len(inp[k]) = Len(lah.out[k])
            /\ \A i \in 1..Len(inp[k]) :
                  inp[k][i].request.msg.seq
                     = inp[k][1].request.msg.seq + i - 1
            /\ ConfirmedUnsettled(k, inp[k][1].request.msg.seq)

\* the scan is over: the Input holds two rounds of the first client, and the
\* second client, registered and with its only round completed, is not in it
C25_Witness ==
    /\ settle.pc = "load_all_history"
    /\ lah.keys = {}
    /\ lah.all = PublicKeys
    /\ DOMAIN ProverInput(lah.out) = {1}
    /\ Len(ProverInput(lah.out)[1]) = 2
    /\ status[2].state = Completed

(***************************************************************************)
(* Properties of a stop between the claim transaction and commit.          *)
(***************************************************************************)
\* the contract has accepted a claim of pk that commit has not applied
ClaimedNotCommitted(pk) ==
    /\ pk \in DOMAIN status
    /\ chain.seq[pk] > status[pk].commit_seq

\* C26: whenever the contract has accepted a claim of pk that commit has
\* not applied (the gateway stopped, or commit failed, after the
\* transaction), the status of pk has the commit_seq of before the claim,
\* the history record of every claimed round is on disk, and a settlement
\* scan of pk reads all of them again: its list starts at commit_seq + 1 and
\* holds every round up to the contract's seq.
C26_ClaimedRoundsReincluded ==
    \A pk \in PublicKeys :
        ClaimedNotCommitted(pk) =>
            LET r == LoadKeyHistory(status, history, NoMap, pk, 0)
                claimed == (status[pk].commit_seq + 1)..chain.seq[pk]
            IN  /\ \A seq \in claimed : HKey(pk, seq) \in DOMAIN history
                /\ r.res = "Ok"
                /\ \A seq \in claimed : Returns(r.out, pk, seq)
                /\ r.out[pk][1].seq = status[pk].commit_seq + 1

\* the contract accepted a claim of the first client and commit has applied
\* none (the gateway was stopped in between, or commit failed at once);
\* started again, the settlement loop has scanned the client and holds the
\* claimed rounds once more
C26_Witness ==
    /\ chain.claimed # <<>>
    /\ applied = <<>>
    /\ settle.pc = "load_all_history"
    /\ ClaimedNotCommitted(1)
    /\ Returns(lah.out, 1, chain.seq[1])

(***************************************************************************)
(* Properties of a client without a status record.                         *)
(***************************************************************************)
\* C27: in every reachable state, for a client without a status record
\* whose seq on the contract is s, the seq endpoint (the client not being
\* registered) answers s, and the client's correctly signed request for
\* s + 1 is accepted by MetadataCache::req.
C27_BeginsAfterChainSeq ==
    \A pk \in PublicKeys :
        pk \notin DOMAIN status =>
            /\ pk \notin locks
                  => CurrentSeq(locks, status, chain, pk, 0)
                        = <<chain.seq[pk]>>
            /\ ReqCall(status, history, SignedReq(pk, chain.seq[pk] + 1), 0).res
                  = "Ok"

(***************************************************************************)
(* Properties of the lock registry.                                        *)
(***************************************************************************)
\* C28: in every reachable state, every key of the lock registry has a
\* status record and a history record for every seq with
\* commit_seq < seq < status.seq, so that, the store answering, a
\* load_all_history iteration for the key succeeds and the seq endpoint
\* (load_status) answers for it.
C28_RegisteredKeysHaveRecords ==
    \A key \in locks :
        /\ key \in DOMAIN status
        /\ \A seq \in (status[key].commit_seq + 1)..(status[key].seq - 1) :
              HKey(key, seq) \in DOMAIN history
        /\ LoadKeyHistory(status, history, NoMap, key, 0).res = "Ok"
        /\ CurrentSeq(locks, status, chain, key, 0) # <<>>

(***************************************************************************)
(* Properties of the commit of a snapshot.                                 *)
(***************************************************************************)
\* the claims of the proof journal the settlement loop holds, frame by frame
SnapshotClaims ==
    [i \in 1..Frames(settle.journal) |->
        DecodeClaim(Frame(settle.journal, i))]

\* C29: from the moment the settlement loop holds the proof of its snapshot
\* until it calls commit, whatever the handlers of any client have done in
\* between: every claim of the snapshot is of a registered key and passes
\* both guards of commit; commit on these claims returns Ok, leaves for
\* every claimed key commit_seq at the last seq of its claim and seq and
\* state as they are, and removes no history record outside the claimed
\* ranges, so the rounds accepted after the snapshot keep their records.
\* When the loop is at commit, these are the claims it passes, and no commit
\* of the loop has failed.
C29_SnapshotCommitSucceeds ==
    /\ settle.error # "commit"
    /\ settle.pc \in {"decode", "commit"} =>
          LET claims == SnapshotClaims
              r == Commit(status, history, locks, claims,
                          [i \in 1..Len(claims) |-> 0])
              covered == UNION {{HKey(claims[i].pk, seq) : seq \in
                                   claims[i].start_seq..
                                   (claims[i].start_seq + claims[i].rounds - 1)} :
                                i \in 1..Len(claims)}
          IN  /\ settle.pc = "commit" => settle.claims = claims
              /\ \A i \in 1..Len(claims) :
                    /\ claims[i].pk \in locks
                    /\ CommitGuard(status[claims[i].pk], claims[i])
              /\ r.res = "Ok"
              /\ \A i \in 1..Len(claims) :
                    LET pk == claims[i].pk IN
                    /\ r.status[pk].commit_seq
                          = claims[i].start_seq + claims[i].rounds - 1
                    /\ r.status[pk].seq = status[pk].seq
                    /\ r.status[pk].state = status[pk].state
              /\ DOMAIN r.history = DOMAIN history \ covered
              /\ \A k \in DOMAIN r.history : r.history[k] = history[k]

\* the loop is at commit with the claim of round 1 of the first client,
\* whose round 2 was confirmed and whose request 3 was accepted after the
\* snapshot
C29_Witness ==
    /\ settle.pc = "commit"
    /\ settle.claims = <<Claim(1, 1, 1, 3)>>
    /\ status[1].seq = 3
    /\ HKey(1, 2) \in DOMAIN history

=============================================================================
